---------------------------- MODULE Spec2Model ----------------------------
(***************************************************************************)
(* A model of the bridge session of the VDO.Ninja MCP bridge               *)
(* (scripts/lib/bridge-session.js): the per-session protocol engines       *)
(* (handshake, session MAC, chunked file transfer, last-writer-wins room   *)
(* state) running over an unreliable peer-to-peer data channel.            *)
(*                                                                         *)
(* Every BridgeSession field is a variable holding one value per session.  *)
(* A handler of the source is an operator that maps a snapshot S of the    *)
(* session's fields (and the envelopes it has sent so far, S.out) to the   *)
(* snapshot after the handler; an action applies one operation or one      *)
(* event handler as a whole and commits the result.                        *)
(***************************************************************************)
EXTENDS Integers, Sequences, FiniteSets, Bags, TLC

VARIABLES
  config,                 \* this.config, fixed at construction
  peerState,              \* this.peerState: uuid -> peer record
  sharedKeys,             \* this.sharedKeys: uuid -> derived key
  roomState,              \* this.roomState: key -> state entry
  stateClock,             \* this.stateClock
  stateActorClock,        \* this.stateActorClock: actor -> clock
  incomingTransfers,      \* this.incomingTransfers: transfer id -> record
  outgoingTransfers,      \* this.outgoingTransfers: transfer id -> record
  completedIncomingOrder, \* this.completedIncomingOrder
  completedOutgoingOrder, \* this.completedOutgoingOrder
  protocolEvents,         \* this.protocolEvents (the protocol bus log)
  protocolCursor,         \* this.protocolCursor
  eventQueue,             \* this.eventQueue
  lifecycle,              \* this.running, connecting, state, sdk and the timers
  disk,                   \* the spool directory: open descriptors and files
  poll,                   \* the pending pollEvents promise and what polls returned
  call,                   \* the suspended sendFile / resume call of a session
  chain,                  \* the promise chain of the tool server's dispatch loop
  net,                    \* envelopes in flight on the data channels
  faults,                 \* number of transport faults injected so far
  last                    \* what the last step did (observation only)

vars == <<config, peerState, sharedKeys, roomState, stateClock, stateActorClock,
          incomingTransfers, outgoingTransfers, completedIncomingOrder,
          completedOutgoingOrder, protocolEvents, protocolCursor, eventQueue,
          lifecycle, disk, poll, call, chain, net, faults, last>>

-----------------------------------------------------------------------------
(* Universe of the model *)

\* An absent string (null / undefined).
None == "none"

\* An absent object (null / undefined where the code expects an object).
Nil == [nil |-> TRUE]

\* An absent number: every parser of bridge-utils.js falls back on it.
NoInt == 0 - 1

PROTOCOL_MAGIC == "vdo_mcp_bridge_v1"

Sessions == {"a", "b"}

\* The uuid the signalling layer gives a peer; "x" is a peer that is not
\* one of the modelled sessions (any other member of the room).
Uuids == Sessions \cup {"x"}

StreamIdOf(u) == CASE u = "a" -> "agent_a" [] u = "b" -> "agent_b" [] OTHER -> "agent_x"

StreamIds == {StreamIdOf(u) : u \in Uuids}

\* JavaScript's string order on the stream ids used here.
StreamRank(actor) ==
  CASE actor = "agent_a" -> 1 [] actor = "agent_b" -> 2 [] actor = "agent_x" -> 3 [] OTHER -> 0

Room == "room"

StateKeys == {"k1", "k2"}

KeyOrder == <<"k1", "k2">>

StateValues == {"v1"}

Max(x, y) == IF x >= y THEN x ELSE y

Min(x, y) == IF x <= y THEN x ELSE y

-----------------------------------------------------------------------------
(* bridge-utils.js *)

intFromValue(value, fallback) ==
  IF value > 0 THEN value ELSE fallback

nonNegativeIntFromValue(value, fallback) ==
  IF value >= 0 THEN value ELSE fallback

\* SHA-256, collision free: the digest names the data it was computed from.
sha256Hex(data) == [sha256 |-> data]

\* HMAC-SHA256: the tag names the key and the data it was computed from.
hmacSha256Hex(secret, data) == [hmac |-> secret, over |-> data]

-----------------------------------------------------------------------------
(* The session snapshot a handler works on *)

Self(s) ==
  [id |-> s,
   config |-> config[s],
   peerState |-> peerState[s],
   sharedKeys |-> sharedKeys[s],
   roomState |-> roomState[s],
   stateClock |-> stateClock[s],
   stateActorClock |-> stateActorClock[s],
   incomingTransfers |-> incomingTransfers[s],
   outgoingTransfers |-> outgoingTransfers[s],
   completedIncomingOrder |-> completedIncomingOrder[s],
   completedOutgoingOrder |-> completedOutgoingOrder[s],
   protocolEvents |-> protocolEvents[s],
   protocolCursor |-> protocolCursor[s],
   eventQueue |-> eventQueue[s],
   lifecycle |-> lifecycle[s],
   disk |-> disk[s],
   poll |-> poll[s],
   ok |-> TRUE,
   out |-> {}]

\* The fields of session S.id after a handler; config never changes.
CommitFields(S) ==
  /\ peerState' = [peerState EXCEPT ![S.id] = S.peerState]
  /\ sharedKeys' = [sharedKeys EXCEPT ![S.id] = S.sharedKeys]
  /\ roomState' = [roomState EXCEPT ![S.id] = S.roomState]
  /\ stateClock' = [stateClock EXCEPT ![S.id] = S.stateClock]
  /\ stateActorClock' = [stateActorClock EXCEPT ![S.id] = S.stateActorClock]
  /\ incomingTransfers' = [incomingTransfers EXCEPT ![S.id] = S.incomingTransfers]
  /\ outgoingTransfers' = [outgoingTransfers EXCEPT ![S.id] = S.outgoingTransfers]
  /\ completedIncomingOrder' = [completedIncomingOrder EXCEPT ![S.id] = S.completedIncomingOrder]
  /\ completedOutgoingOrder' = [completedOutgoingOrder EXCEPT ![S.id] = S.completedOutgoingOrder]
  /\ protocolEvents' = [protocolEvents EXCEPT ![S.id] = S.protocolEvents]
  /\ protocolCursor' = [protocolCursor EXCEPT ![S.id] = S.protocolCursor]
  /\ eventQueue' = [eventQueue EXCEPT ![S.id] = S.eventQueue]
  /\ lifecycle' = [lifecycle EXCEPT ![S.id] = S.lifecycle]
  /\ disk' = [disk EXCEPT ![S.id] = S.disk]
  /\ poll' = [poll EXCEPT ![S.id] = S.poll]
  /\ UNCHANGED config

\* A handler that runs outside the tool server's dispatch loop.
Commit(S) == CommitFields(S) /\ UNCHANGED chain

\* The envelopes of S.out that reach a modelled session: the transport
\* delivers to the peers that are connected.
Delivered(S) == {m \in S.out : m.to \in Sessions /\ lifecycle[m.to].sdk}

-----------------------------------------------------------------------------
(* Event queue and protocol bus *)

\* No pollEvents promise is pending, no poll has returned anything and the
\* peers have posted no application message. Of a pending promise: the
\* splice size (waiting), the ms left on its timer, the waitMs it was
\* called with and the ms elapsed since the call.
NoPoll ==
  [waiting |-> NoInt, returned |-> <<>>, posted |-> 0,
   timer |-> NoInt, waitMs |-> NoInt, elapsed |-> 0]

\* this.eventQueue.splice(0, safeMax) for the caller of pollEvents: the
\* events go to the caller and leave the queue.
SpliceEvents(S, safeMax) ==
  LET taken == IF safeMax < 0 THEN 0
               ELSE IF safeMax > Len(S.eventQueue) THEN Len(S.eventQueue) ELSE safeMax
  IN [S EXCEPT !.eventQueue = SubSeq(@, taken + 1, Len(@)),
               !.poll.waiting = NoInt,
               !.poll.timer = NoInt,
               !.poll.waitMs = NoInt,
               !.poll.elapsed = 0,
               !.poll.returned = @ \o SubSeq(S.eventQueue, 1, taken)]

\* queueEvent discarding the new event, not the oldest, when the queue is
\* full.
queueEventNewest(S, event) ==
  IF Len(S.eventQueue) >= S.config.maxQueueSize THEN S
  ELSE [S EXCEPT !.eventQueue = Append(@, event)]

\* queueEvent: push, trim to the cap, and emit eventQueued, on which the
\* listener of a pending pollEvents takes its events at once.
queueEvent(S, event) ==
  LET pushed == Append(S.eventQueue, event)
      over == Len(pushed) - S.config.maxQueueSize
      trimmed == [S EXCEPT !.eventQueue =
                    IF over > 0 THEN SubSeq(pushed, over + 1, Len(pushed)) ELSE pushed]
  IN IF S.poll.waiting = NoInt THEN trimmed
     ELSE SpliceEvents(trimmed, S.poll.waiting)

\* pollEvents with the timer set to waitMs as given, whatever its size.
pollEventsUncapped(S, maxEvents, waitMs) ==
  LET safeMax == intFromValue(maxEvents, 50)
      safeWait == intFromValue(waitMs, 0)
  IN IF Len(S.eventQueue) > 0 \/ safeWait <= 0 THEN SpliceEvents(S, safeMax)
     ELSE [S EXCEPT !.poll.waiting = safeMax, !.poll.timer = safeWait,
                    !.poll.waitMs = waitMs, !.poll.elapsed = 0]

\* pollEvents(maxEvents, waitMs): the events are returned at once when the
\* queue holds any or no wait is asked for; otherwise the promise waits for
\* the next eventQueued or for its timer.
pollEvents(S, maxEvents, waitMs) ==
  LET safeMax == intFromValue(maxEvents, 50)
      wait == intFromValue(waitMs, 0)
      safeWait == IF wait > 30000 THEN 30000 ELSE wait
  IN IF Len(S.eventQueue) > 0 \/ safeWait <= 0 THEN SpliceEvents(S, safeMax)
     ELSE [S EXCEPT !.poll.waiting = safeMax, !.poll.timer = safeWait,
                    !.poll.waitMs = waitMs, !.poll.elapsed = 0]

MAX_PROTOCOL_EVENTS == 4000

recordProtocolEvent(S, event) ==
  LET cursor == S.protocolCursor + 1
      stamped == [cursor |-> cursor, kind |-> event.kind, from_uuid |-> event.from_uuid,
                  transfer_id |-> event.transfer_id, payload |-> event.payload]
      pushed == Append(S.protocolEvents, stamped)
      over == Len(pushed) - MAX_PROTOCOL_EVENTS
  IN [S EXCEPT !.protocolCursor = cursor,
               !.protocolEvents =
                  IF over > 0 THEN SubSeq(pushed, over + 1, Len(pushed)) ELSE pushed]

ProtocolEvent(kind, fromUuid, transferId, payload) ==
  [kind |-> kind, from_uuid |-> fromUuid, transfer_id |-> transferId, payload |-> payload]

-----------------------------------------------------------------------------
(* Handshake material: join tokens, key agreement, session MAC *)

\* createJoinToken: the body and its HMAC under the secret.
createJoinToken(payload, secret) ==
  [body |-> payload, sig |-> hmacSha256Hex(secret, payload)]

verifyJoinToken(token, secret) ==
  IF token = Nil THEN [ok |-> FALSE, error |-> "token must be a non-empty string", payload |-> Nil]
  ELSE IF token.sig # hmacSha256Hex(secret, token.body)
    THEN [ok |-> FALSE, error |-> "invalid token signature", payload |-> Nil]
    ELSE [ok |-> TRUE, error |-> None, payload |-> token.body]

\* buildJoinToken at time now: the configured token verbatim, else one minted
\* with the secret, else none.
buildJoinToken(S, now) ==
  IF S.config.joinToken # Nil THEN S.config.joinToken
  ELSE IF S.config.joinTokenSecret = None THEN Nil
  ELSE createJoinToken([room |-> Room, stream_id |-> S.config.streamID,
                        exp |-> now + S.config.joinTokenTtlMs],
                       S.config.joinTokenSecret)

\* validateJoinToken with the expiry check left out: the variant the claim
\* about enforced join tokens has to tell apart from the code.
validateJoinTokenNoExpiry(S, token, streamID, now) ==
  IF S.config.joinTokenSecret = None \/ token = Nil THEN
    IF S.config.enforceJoinToken /\ token = Nil
      THEN [ok |-> FALSE, error |-> "join token required", payload |-> Nil]
      ELSE [ok |-> TRUE, error |-> None, payload |-> Nil]
  ELSE
    LET verified == verifyJoinToken(token, S.config.joinTokenSecret)
        payload == verified.payload
    IN IF ~verified.ok THEN verified
       ELSE IF payload.room # None /\ payload.room # Room
         THEN [ok |-> FALSE, error |-> "join token room mismatch", payload |-> Nil]
       ELSE IF payload.stream_id # None /\ streamID # None /\ payload.stream_id # streamID
         THEN [ok |-> FALSE, error |-> "join token stream mismatch", payload |-> Nil]
       ELSE [ok |-> TRUE, error |-> None, payload |-> payload]

validateJoinToken(S, token, streamID, now) ==
  IF S.config.joinTokenSecret = None THEN
    IF S.config.enforceJoinToken /\ token = Nil
      THEN [ok |-> FALSE, error |-> "join token required", payload |-> Nil]
      ELSE [ok |-> TRUE, error |-> None, payload |-> Nil]
  ELSE IF token = Nil THEN
    IF S.config.enforceJoinToken
      THEN [ok |-> FALSE, error |-> "join token required", payload |-> Nil]
      ELSE [ok |-> TRUE, error |-> None, payload |-> Nil]
  ELSE
    LET verified == verifyJoinToken(token, S.config.joinTokenSecret)
        payload == verified.payload
    IN IF ~verified.ok THEN verified
       ELSE IF payload.room # None /\ payload.room # Room
         THEN [ok |-> FALSE, error |-> "join token room mismatch", payload |-> Nil]
       ELSE IF payload.stream_id # None /\ streamID # None /\ payload.stream_id # streamID
         THEN [ok |-> FALSE, error |-> "join token stream mismatch", payload |-> Nil]
       ELSE IF payload.exp > 0 /\ now > payload.exp
         THEN [ok |-> FALSE, error |-> "join token expired", payload |-> Nil]
       ELSE [ok |-> TRUE, error |-> None, payload |-> payload]

\* The X25519 public key of the key pair owned by uuid u.
PublicKeyOf(u) == [x25519 |-> u]

\* crypto.diffieHellman: both ends derive the same secret from the two pairs.
diffieHellman(localUuid, remotePublic) == [dh |-> {localUuid, remotePublic.x25519}]

touchPeer(S, uuid, streamID) ==
  IF uuid = None THEN S
  ELSE
    LET old == S.peerState[uuid]
        peer == IF old = Nil
                  THEN [uuid |-> uuid, stream_id |-> streamID, connected |-> TRUE,
                        handshake_state |-> "discovered", auth_ok |-> TRUE,
                        rejected_reason |-> None, shared_key_ready |-> FALSE,
                        capabilities |-> Nil, token_payload |-> Nil]
                  ELSE old
    IN [S EXCEPT !.peerState[uuid] =
          [peer EXCEPT !.connected = TRUE,
                       !.stream_id = IF streamID # None THEN streamID ELSE peer.stream_id]]

\* isPeerAllowed with the allowlist lookup left out: the variant the claim
\* about the allowlist has to tell apart from the code.
isPeerAllowedNoLookup(S, streamID) ==
  IF S.config.allowPeerStreamIDs = {} THEN TRUE ELSE streamID # None

isPeerAllowed(S, streamID) ==
  IF S.config.allowPeerStreamIDs = {} THEN TRUE
  ELSE streamID # None /\ streamID \in S.config.allowPeerStreamIDs

maybeDeriveSharedKey(S, uuid, remotePubKey) ==
  IF uuid = None \/ remotePubKey = Nil THEN S
  ELSE
    LET T == touchPeer([S EXCEPT !.sharedKeys[uuid] = diffieHellman(S.id, remotePubKey)],
                       uuid, None)
    IN [T EXCEPT !.peerState[uuid].shared_key_ready = TRUE]

\* signaturePayload: the fields of the envelope the MAC covers.
signaturePayload(envelope) ==
  [kind |-> envelope.kind, room |-> envelope.room,
   from_stream_id |-> envelope.from_stream_id, payload |-> envelope.payload]

computeEnvelopeMac(envelope, keyBuffer) ==
  IF keyBuffer = Nil THEN Nil ELSE hmacSha256Hex(keyBuffer, signaturePayload(envelope))

\* An envelope's mac field: absent (Nil), the empty string, or a tag.
EmptyMac == [empty |-> TRUE]

Capabilities == [sync_v1 |-> TRUE, file_transfer_v1 |-> TRUE, state_v1 |-> TRUE,
                 resume_v1 |-> TRUE, session_mac_v1 |-> TRUE]

buildProtocolEnvelope(S, kind, payload, targetUuid, preferMac, now) ==
  LET full == IF kind \in {"sync.hello", "sync.hello_ack"}
                THEN [capabilities |-> Capabilities, public_key |-> PublicKeyOf(S.id),
                      join_token |-> buildJoinToken(S, now)]
                ELSE payload
      envelope == [vdo_mcp |-> PROTOCOL_MAGIC, kind |-> kind, room |-> Room,
                   from_stream_id |-> S.config.streamID, payload |-> full, mac |-> Nil]
      sharedKey == IF targetUuid # None THEN S.sharedKeys[targetUuid] ELSE Nil
      shouldMac == preferMac /\ sharedKey # Nil
  IN IF shouldMac THEN [envelope EXCEPT !.mac = computeEnvelopeMac(envelope, sharedKey)]
     ELSE envelope

\* verifyEnvelopeMac accepting a MAC when no key is held for the peer: the
\* variant the claim about received envelopes has to tell apart from the code.
verifyEnvelopeMacNoKey(S, uuid, envelope) ==
  LET hasMac == envelope.mac # Nil /\ envelope.mac # EmptyMac
      sharedKey == IF uuid # None THEN S.sharedKeys[uuid] ELSE Nil
  IN IF ~hasMac THEN ~S.config.requireSessionMac
     ELSE IF sharedKey = Nil THEN TRUE
     ELSE envelope.mac = computeEnvelopeMac(envelope, sharedKey)

verifyEnvelopeMac(S, uuid, envelope) ==
  LET hasMac == envelope.mac # Nil /\ envelope.mac # EmptyMac
      sharedKey == IF uuid # None THEN S.sharedKeys[uuid] ELSE Nil
  IN IF ~hasMac THEN ~S.config.requireSessionMac
     ELSE IF sharedKey = Nil THEN FALSE
     ELSE envelope.mac = computeEnvelopeMac(envelope, sharedKey)

-----------------------------------------------------------------------------
(* Sending *)

\* The other members of the room of session s.
Peers(s) == Uuids \ {s}

\* hasOpenDataChannel taking a connected SDK for an open channel.
hasOpenDataChannelAny(S, targetUuid) == S.lifecycle.sdk

\* hasOpenDataChannel(targetUuid), the SDK exposing its connections: the
\* channel to that peer is open, or with no uuid any channel is.
hasOpenDataChannel(S, targetUuid) ==
  IF ~S.lifecycle.sdk THEN FALSE
  ELSE IF targetUuid # None THEN targetUuid \in S.lifecycle.channels
  ELSE S.lifecycle.channels # {}

\* The end of send: the data channel check and sdk.sendData, which hands
\* the payload to the transport for the given recipients and tells whether
\* there were any; the transport stamps the sender's uuid and stream id on
\* what it delivers. S.ok is what send returns.
SendData(S, data, targetUuid, allowFallback, recipients) ==
  IF ~allowFallback /\ ~hasOpenDataChannel(S, targetUuid)
    THEN [queueEvent(S, [type |-> "send_rejected", reason |-> "no_open_data_channel",
                         target |-> targetUuid]) EXCEPT !.ok = FALSE]
  ELSE [S EXCEPT !.ok = recipients # {},
                 !.out = S.out \cup
          {[to |-> u, uuid |-> S.id, streamID |-> S.config.streamID, data |-> data] :
             u \in recipients}]

\* send with no target or a string target: a stream id is mapped to the
\* uuid of the peer that has it; with a target the payload goes to that
\* peer, without one to every peer of the transport.
send(S, data, target) ==
  IF ~S.lifecycle.sdk
    THEN [queueEvent(S, [type |-> "send_rejected", reason |-> "not_connected"])
            EXCEPT !.ok = FALSE]
  ELSE
  LET resolved == IF target = None THEN None
                  ELSE IF \E u \in Uuids : S.peerState[u] # Nil /\ S.peerState[u].stream_id = target
                    THEN CHOOSE u \in Uuids : S.peerState[u] # Nil /\ S.peerState[u].stream_id = target
                    ELSE target
      recipients == IF resolved = None THEN S.lifecycle.connectedPeers
                    ELSE {u \in S.lifecycle.connectedPeers :
                            u = resolved \/ StreamIdOf(u) = resolved}
  IN SendData(S, data, resolved, FALSE, recipients)

\* send with an object target [uuid, allowFallback]: the uuid may be absent.
sendToObject(S, data, target) ==
  IF ~S.lifecycle.sdk
    THEN [queueEvent(S, [type |-> "send_rejected", reason |-> "not_connected"])
            EXCEPT !.ok = FALSE]
  ELSE SendData(S, data, target.uuid, target.allowFallback,
                IF target.uuid = None THEN S.lifecycle.connectedPeers
                ELSE {u \in S.lifecycle.connectedPeers : u = target.uuid})

sendProtocol(S, kind, payload, target, preferMac, now) ==
  IF ~S.lifecycle.sdk THEN S
  ELSE send(S, buildProtocolEnvelope(S, kind, payload, target, preferMac, now), target)

-----------------------------------------------------------------------------
(* StateEngine *)

stateShouldApply(existing, incoming) ==
  IF existing = Nil THEN TRUE
  ELSE
    LET incomingClock == intFromValue(incoming.clock, 0)
        existingClock == intFromValue(existing.clock, 0)
    IN IF incomingClock > existingClock THEN TRUE
       ELSE IF incomingClock < existingClock THEN FALSE
       ELSE StreamRank(incoming.actor) > StreamRank(existing.actor)

markStateActorClock(S, actor, clock) ==
  LET safeActor == IF actor = None THEN S.config.streamID ELSE actor
      parsed == intFromValue(clock, 0)
      current == intFromValue(S.stateActorClock[safeActor], 0)
  IN IF parsed > current THEN [S EXCEPT !.stateActorClock[safeActor] = parsed] ELSE S

asStateEntry(S, key, value, actor, clock) ==
  [key |-> key, value |-> value,
   actor |-> IF actor = None THEN S.config.streamID ELSE actor,
   clock |-> intFromValue(clock, 0)]

\* this.roomState.size
StateSize(S) == Cardinality({k \in StateKeys : S.roomState[k] # Nil})

StateUpdated(source, entry) ==
  [type |-> "state_updated", source |-> source, key |-> entry.key,
   actor |-> entry.actor, clock |-> entry.clock]

\* applyStatePatch without the stale check, counting every patch on the
\* local clock.
applyStatePatchCounting(S, patch, source) ==
  IF patch = Nil THEN [S |-> S, applied |-> FALSE, reason |-> "invalid_patch"]
  ELSE IF patch.key = None THEN [S |-> S, applied |-> FALSE, reason |-> "missing_key"]
  ELSE
    LET incoming == asStateEntry(S, patch.key, patch.value, patch.actor, patch.clock)
        S1 == [S EXCEPT !.roomState[incoming.key] = incoming]
        S2 == markStateActorClock(S1, incoming.actor, incoming.clock)
        S3 == [S2 EXCEPT !.stateClock = S2.stateClock + 1]
    IN IF incoming.clock <= 0 THEN [S |-> S, applied |-> FALSE, reason |-> "invalid_clock"]
       ELSE [S |-> queueEvent(S3, StateUpdated(source, incoming)),
             applied |-> TRUE, reason |-> None]

\* applyStatePatch: the session afterwards, and whether the patch was applied.
applyStatePatch(S, patch, source) ==
  IF patch = Nil THEN [S |-> S, applied |-> FALSE, reason |-> "invalid_patch"]
  ELSE IF patch.key = None THEN [S |-> S, applied |-> FALSE, reason |-> "missing_key"]
  ELSE
    LET incoming == asStateEntry(S, patch.key, patch.value, patch.actor, patch.clock)
        existing == S.roomState[incoming.key]
    IN IF incoming.clock <= 0 THEN [S |-> S, applied |-> FALSE, reason |-> "invalid_clock"]
       ELSE IF ~stateShouldApply(existing, incoming)
         THEN [S |-> S, applied |-> FALSE, reason |-> "stale_patch"]
       ELSE IF existing = Nil /\ StateSize(S) >= S.config.stateMaxKeys
         THEN [S |-> S, applied |-> FALSE, reason |-> "state_key_limit_reached"]
       ELSE
         LET S1 == [S EXCEPT !.roomState[incoming.key] = incoming]
             S2 == markStateActorClock(S1, incoming.actor, incoming.clock)
             localActorClock == intFromValue(S2.stateActorClock[S.config.streamID], 0)
             S3 == [S2 EXCEPT !.stateClock = Max(S2.stateClock, localActorClock)]
         IN [S |-> queueEvent(S3, StateUpdated(source, incoming)),
             applied |-> TRUE, reason |-> None]

\* 9007199254740992 = 2^53, the first number x of JavaScript with x + 1 = x.
\* TLC's integers have 32 bits: the number is written 2^30 here, every
\* other clock of the model being far below it.
TwoTo53 == 2 ^ 30

\* this.stateClock += 1 on a JavaScript number.
Increment(x) == IF x = TwoTo53 THEN x ELSE x + 1

setLocalState(S, key, value, broadcast, target, now) ==
  LET S1 == [S EXCEPT !.stateClock = Increment(S.stateClock)]
      entry == asStateEntry(S1, key, value, S.config.streamID, S1.stateClock)
      S2 == [S1 EXCEPT !.roomState[entry.key] = entry]
      S3 == markStateActorClock(S2, entry.actor, entry.clock)
      S4 == IF broadcast THEN sendProtocol(S3, "state.patch", entry, target, TRUE, now) ELSE S3
  IN queueEvent(S4, StateUpdated("local", entry))

RECURSIVE EntriesFrom(_, _)
\* The entries of S from position i of the key order on, sorted by key.
EntriesFrom(S, i) ==
  IF i > Len(KeyOrder) THEN <<>>
  ELSE IF S.roomState[KeyOrder[i]] = Nil THEN EntriesFrom(S, i + 1)
  ELSE <<S.roomState[KeyOrder[i]]>> \o EntriesFrom(S, i + 1)

listStateEntries(S) == EntriesFrom(S, 1)

getStateSnapshot(S) ==
  LET entries == listStateEntries(S)
  IN [room |-> Room, stream_id |-> S.config.streamID,
      entries |-> SubSeq(entries, 1, Min(Len(entries), S.config.stateMaxSnapshotEntries)),
      actor_clock |-> S.stateActorClock]

requestStateSnapshot(S, target, now) ==
  sendProtocol(S, "state.snapshot_req",
               [room |-> Room, requester_stream_id |-> S.config.streamID], target, TRUE, now)

sendStateSnapshot(S, target, now) ==
  sendProtocol(S, "state.snapshot", getStateSnapshot(S), target, TRUE, now)

RECURSIVE MergeEntries(_, _, _, _)
\* The loop of handleStateMessage over a snapshot's entries, from entry i.
MergeEntries(S, entries, i, appliedCount) ==
  IF i > Len(entries) THEN [S |-> S, applied |-> appliedCount]
  ELSE LET r == applyStatePatch(S, entries[i], "remote_snapshot")
       IN MergeEntries(r.S, entries, i + 1, IF r.applied THEN appliedCount + 1 ELSE appliedCount)

RECURSIVE MarkActorClocks(_, _, _)
MarkActorClocks(S, actorClock, actors) ==
  IF actors = {} THEN S
  ELSE LET actor == CHOOSE x \in actors : TRUE
       IN MarkActorClocks(markStateActorClock(S, actor, actorClock[actor]),
                          actorClock, actors \ {actor})

handleStateMessage(S, fromUuid, fromStreamID, kind, payload, now) ==
  IF kind = "state.patch" THEN
    LET r == applyStatePatch(S, payload, "remote")
    IN recordProtocolEvent(r.S, ProtocolEvent(kind, fromUuid, None,
         IF r.applied THEN [key |-> payload.key, clock |-> payload.clock]
         ELSE [error |-> r.reason]))
  ELSE IF kind = "state.snapshot_req" THEN
    recordProtocolEvent(
      sendProtocol(S, "state.snapshot", getStateSnapshot(S), fromUuid, TRUE, now),
      ProtocolEvent("state.snapshot", fromUuid, None, [entries |-> StateSize(S)]))
  ELSE IF kind = "state.snapshot" THEN
    LET entries == SubSeq(payload.entries, 1,
                          Min(Len(payload.entries), S.config.stateMaxSnapshotEntries))
        merged == MergeEntries(S, entries, 1, 0)
        S1 == MarkActorClocks(merged.S, payload.actor_clock, DOMAIN payload.actor_clock)
        S2 == recordProtocolEvent(S1, ProtocolEvent(kind, fromUuid, None,
                 [applied |-> merged.applied, offered |-> Len(entries)]))
    IN queueEvent(S2, [type |-> "state_snapshot_merged", from_uuid |-> fromUuid,
                       applied |-> merged.applied, offered |-> Len(entries)])
  ELSE queueEvent(S, [type |-> "state_protocol_unhandled", kind |-> kind, from_uuid |-> fromUuid])

-----------------------------------------------------------------------------
(* HandshakeEngine *)

SyncPeerRejected(fromUuid, fromStreamID, reason) ==
  [type |-> "sync_peer_rejected", uuid |-> fromUuid, stream_id |-> fromStreamID,
   reason |-> reason]

RejectPeer(S, uuid, reason) ==
  IF uuid = None THEN S
  ELSE [S EXCEPT !.peerState[uuid].handshake_state = "rejected",
                 !.peerState[uuid].auth_ok = FALSE,
                 !.peerState[uuid].rejected_reason = reason]

handleSyncMessage(S, fromUuid, fromStreamID, kind, payload, now) ==
  LET P == touchPeer(S, fromUuid, fromStreamID)
  IN
  IF fromStreamID # None /\ ~isPeerAllowed(P, fromStreamID) THEN
    recordProtocolEvent(
      queueEvent(RejectPeer(P, fromUuid, "peer not on allowlist"),
                 SyncPeerRejected(fromUuid, fromStreamID, "peer_not_allowed")),
      ProtocolEvent("sync.reject", fromUuid, None, [reason |-> "peer_not_allowed"]))
  ELSE IF kind = "sync.heartbeat" THEN P
  ELSE IF kind \notin {"sync.hello", "sync.hello_ack", "sync.reject"} THEN P
  ELSE IF kind = "sync.reject" THEN
    LET reason == IF "reason" \in DOMAIN payload THEN payload.reason ELSE "rejected_by_peer"
    IN recordProtocolEvent(
         queueEvent(RejectPeer(P, fromUuid, reason),
                    SyncPeerRejected(fromUuid, fromStreamID, reason)),
         ProtocolEvent(kind, fromUuid, None, payload))
  ELSE
    LET token == IF "join_token" \in DOMAIN payload THEN payload.join_token ELSE Nil
        tokenCheck == validateJoinToken(P, token, fromStreamID, now)
    IN
    IF ~tokenCheck.ok /\ P.config.enforceJoinToken THEN
      recordProtocolEvent(
        queueEvent(
          sendProtocol(RejectPeer(P, fromUuid, tokenCheck.error),
                       "sync.reject", [reason |-> tokenCheck.error], fromUuid, FALSE, now),
          SyncPeerRejected(fromUuid, fromStreamID, tokenCheck.error)),
        ProtocolEvent("sync.reject", fromUuid, None, [reason |-> tokenCheck.error]))
    ELSE
      LET S1 == IF fromUuid = None THEN P
                ELSE [P EXCEPT
                       !.peerState[fromUuid].auth_ok = tokenCheck.ok,
                       !.peerState[fromUuid].token_payload = tokenCheck.payload,
                       !.peerState[fromUuid].handshake_state =
                          IF kind = "sync.hello_ack" THEN "ready" ELSE "hello_received",
                       !.peerState[fromUuid].capabilities =
                          IF "capabilities" \in DOMAIN payload THEN payload.capabilities ELSE Nil]
          S2 == IF "public_key" \in DOMAIN payload
                  THEN maybeDeriveSharedKey(S1, fromUuid, payload.public_key) ELSE S1
          S3 == queueEvent(S2, [type |-> "sync_peer_updated", uuid |-> fromUuid,
                                stream_id |-> fromStreamID,
                                handshake_state |-> S2.peerState[fromUuid].handshake_state,
                                auth_ok |-> S2.peerState[fromUuid].auth_ok,
                                shared_key_ready |-> S2.peerState[fromUuid].shared_key_ready])
          S4 == recordProtocolEvent(S3, ProtocolEvent(kind, fromUuid, None, [hello |-> TRUE]))
      IN IF kind = "sync.hello"
           THEN requestStateSnapshot(
                  sendProtocol(S4, "sync.hello_ack", Nil, fromUuid, TRUE, now), fromUuid, now)
           ELSE requestStateSnapshot(S4, fromUuid, now)

-----------------------------------------------------------------------------
(* FileTransferEngine: buffers, chunks and the spool *)

\* Sizes are counted in units of 1024 bytes, the smallest chunk size.
MIN_CHUNK_BYTES == 1

MAX_CHUNK_BYTES == 256

TransferIds == {"t1"}

clampInt(value, fallback, minValue, maxValue) ==
  LET safe == IF value = NoInt THEN fallback ELSE value
  IN Min(Max(safe, minValue), maxValue)

RECURSIVE Concat(_, _, _)
\* Buffer.concat of chunks[i], chunks[i+1], ... chunks[n-1].
Concat(chunks, i, n) ==
  IF i >= n THEN <<>> ELSE chunks[i] \o Concat(chunks, i + 1, n)

\* toString('base64') and Buffer.from(text, 'base64'): the text names the
\* bytes it encodes, and decoding gives them back.
ToBase64(buffer) == [base64 |-> buffer]

FromBase64(text) == text.base64

\* The chunk of dataBuffer that starts at offset (Buffer.subarray).
SubArray(dataBuffer, offset, end) == SubSeq(dataBuffer, offset + 1, end)

RECURSIVE SplitChunks(_, _, _)
\* buildOutgoingTransfer's loop: the chunks of dataBuffer from offset on,
\* as a function of the sequence number (seq is the next index to fill).
SplitChunks(dataBuffer, chunkBytes, offset) ==
  IF offset >= Len(dataBuffer) THEN <<>>
  ELSE <<SubArray(dataBuffer, offset, Min(offset + chunkBytes, Len(dataBuffer)))>>
         \o SplitChunks(dataBuffer, chunkBytes, offset + chunkBytes)

\* A JavaScript array indexed from 0, from a sequence.
ZeroBased(seq) == [i \in 0 .. (Len(seq) - 1) |-> seq[i + 1]]

\* fs.writeSync(fd, buffer, 0, length, offset) on a file's bytes: a gap
\* before offset reads as zero bytes.
WriteAt(file, offset, buffer) ==
  LET size == Max(Len(file), offset + Len(buffer))
  IN [i \in 1 .. size |->
        IF i > offset /\ i <= offset + Len(buffer) THEN buffer[i - offset]
        ELSE IF i <= Len(file) THEN file[i] ELSE 0]

nextMissingSeq(record) ==
  IF \E i \in 0 .. (record.total_chunks - 1) : i \notin record.received_chunks
    THEN CHOOSE i \in 0 .. (record.total_chunks - 1) :
           /\ i \notin record.received_chunks
           /\ \A j \in 0 .. (i - 1) : j \in record.received_chunks
    ELSE record.total_chunks

\* The spool directory of a session: the descriptors it holds open, the
\* files that exist, and how many files it has created.
EmptyDisk == [open |-> {}, files |-> {}, created |-> 0]

\* The name of the n-th spool file (the code's names carry the time and a
\* random id and do not repeat).
SpoolPath(n) == "spool_" \o ToString(n)

\* createSpoolFileSync: a new file is created and opened for writing.
createSpoolFileSync(S) ==
  LET n == S.disk.created + 1
  IN [S |-> [S EXCEPT !.disk = [open |-> @.open \cup {n},
                                files |-> @.files \cup {SpoolPath(n)},
                                created |-> n]],
      spoolPath |-> SpoolPath(n), fd |-> n]

\* closeTransferFd without the close: the record forgets its descriptor and
\* the descriptor stays open.
closeTransferFdKept(S, transfer) ==
  [S |-> S, transfer |-> [transfer EXCEPT !.spool_fd = NoInt]]

\* closeTransferFd: the session and the transfer record afterwards.
closeTransferFd(S, transfer) ==
  IF transfer.spool_fd = NoInt THEN [S |-> S, transfer |-> transfer]
  ELSE [S |-> [S EXCEPT !.disk.open = @ \ {transfer.spool_fd}],
        transfer |-> [transfer EXCEPT !.spool_fd = NoInt]]

\* removeTransferSpoolFile: the session and the transfer record afterwards.
removeTransferSpoolFile(S, transfer) ==
  IF transfer.spool_path = None \/ S.config.keepSpoolFiles
    THEN [S |-> S, transfer |-> transfer]
  ELSE [S |-> [S EXCEPT !.disk.files = @ \ {transfer.spool_path}],
        transfer |-> [transfer EXCEPT !.spool_path = None, !.spool_file = <<>>]]

\* cleanupTransferStorage: closeTransferFd, then removeTransferSpoolFile.
cleanupTransferStorage(S, transfer) ==
  LET closed == closeTransferFd(S, transfer)
  IN removeTransferSpoolFile(closed.S, closed.transfer)

\* createIncomingTransfer: the new record and the session whose spool
\* directory holds its file, or the error it throws.
createIncomingTransfer(S, fromUuid, fromStreamID, payload) ==
  LET totalBytes == intFromValue(payload.total_bytes, 0)
      totalChunks == intFromValue(payload.total_chunks, 0)
      chunkBytes == clampInt(payload.chunk_bytes, S.config.fileChunkBytes,
                             MIN_CHUNK_BYTES, MAX_CHUNK_BYTES)
      useSpool == totalBytes >= S.config.fileSpoolThresholdBytes
      spool == createSpoolFileSync(S)
  IN IF totalBytes <= 0 \/ totalBytes > S.config.fileMaxBytes
       THEN [ok |-> FALSE, error |-> "total_bytes out of range", transfer |-> Nil, S |-> S]
     ELSE IF totalChunks <= 0 \/ totalChunks > S.config.fileMaxBytes \div MIN_CHUNK_BYTES
       THEN [ok |-> FALSE, error |-> "invalid total_chunks", transfer |-> Nil, S |-> S]
     ELSE [ok |-> TRUE, error |-> None, S |-> IF useSpool THEN spool.S ELSE S,
           transfer |->
             [transfer_id |-> payload.transfer_id, status |-> "receiving",
              from_uuid |-> fromUuid, from_stream_id |-> fromStreamID,
              total_bytes |-> totalBytes, total_chunks |-> totalChunks,
              chunk_bytes |-> chunkBytes, file_hash |-> payload.file_hash,
              received_chunks |-> {},
              chunks |-> [i \in 0 .. (totalChunks - 1) |-> <<>>],
              received_bytes |-> 0, spooled |-> useSpool,
              spool_path |-> IF useSpool THEN spool.spoolPath ELSE None,
              spool_fd |-> IF useSpool THEN spool.fd ELSE NoInt,
              spool_file |-> <<>>,
              complete_received |-> FALSE, last_error |-> None, data |-> <<>>]]

RECURSIVE EvictIncoming(_)
\* The eviction loop of maybeFinalizeIncomingTransfer.
EvictIncoming(S) ==
  IF Len(S.completedIncomingOrder) <= S.config.maxStoredFiles THEN S
  ELSE LET oldestId == Head(S.completedIncomingOrder)
           S1 == [S EXCEPT !.completedIncomingOrder = Tail(S.completedIncomingOrder)]
           stale == S1.incomingTransfers[oldestId]
       IN EvictIncoming(IF stale = Nil THEN S1
                        ELSE [cleanupTransferStorage(S1, stale).S
                                EXCEPT !.incomingTransfers[oldestId] = Nil])

\* maybeFinalizeIncomingTransfer on transfer id: the session afterwards and
\* whether the transfer was finalized.
maybeFinalizeIncomingTransfer(S, id, fromUuid, now) ==
  LET transfer == S.incomingTransfers[id]
      Fail(S0, tr, error) ==
        [S |-> [S0 EXCEPT !.incomingTransfers[id] =
                   [tr EXCEPT !.status = "failed", !.last_error = error]],
         done |-> FALSE]
  IN
  IF transfer = Nil THEN [S |-> S, done |-> FALSE]
  ELSE IF Cardinality(transfer.received_chunks) # transfer.total_chunks
    THEN [S |-> S, done |-> FALSE]
  ELSE
    LET spool == transfer.spooled /\ transfer.spool_path # None
        closing == IF spool THEN closeTransferFd(S, transfer)
                   ELSE [S |-> S, transfer |-> transfer]
        closed == closing.transfer
        fullData == IF spool THEN closed.spool_file
                    ELSE Concat(closed.chunks, 0, closed.total_chunks)
        missing == ~spool /\ \E i \in 0 .. (closed.total_chunks - 1) : closed.chunks[i] = <<>>
        computed == sha256Hex(fullData)
        hashed == IF spool THEN closed ELSE [closed EXCEPT !.data = fullData]
    IN
    IF missing THEN [S |-> S, done |-> FALSE]
    ELSE IF Len(fullData) # closed.total_bytes
      THEN Fail(closing.S, closed, "byte size mismatch")
    ELSE IF hashed.file_hash # Nil /\ computed # hashed.file_hash
      THEN Fail(closing.S, hashed, "file hash mismatch")
    ELSE
      LET S1 == [closing.S EXCEPT
                          !.incomingTransfers[id] = [hashed EXCEPT !.status = "completed"],
                          !.completedIncomingOrder = Append(S.completedIncomingOrder, id)]
          S2 == EvictIncoming(S1)
          S3 == queueEvent(S2, [type |-> "file_received", transfer_id |-> id,
                                from_uuid |-> hashed.from_uuid, file_hash |-> computed])
      IN [S |-> sendProtocol(S3, "file.complete_ack",
                   [transfer_id |-> id, file_hash |-> computed,
                    total_bytes |-> hashed.total_bytes], fromUuid, TRUE, now),
          done |-> TRUE]

\* payload[name], or the default when the payload has no such field.
Field(payload, name, default) ==
  IF name \in DOMAIN payload THEN payload[name] ELSE default

\* One file.nack of handleFileMessage: sent to the peer and recorded on the
\* local protocol bus.
NackAndRecord(S, fromUuid, transferId, expectedSeq, reason, now) ==
  recordProtocolEvent(
    sendProtocol(S, "file.nack",
                 [transfer_id |-> transferId, expected_seq |-> expectedSeq, reason |-> reason],
                 fromUuid, TRUE, now),
    ProtocolEvent("file.nack", fromUuid, transferId, [expected_seq |-> expectedSeq]))

\* The file.offer branch of handleFileMessage.
handleFileOffer(S, fromUuid, fromStreamID, transferId, payload, now) ==
  LET known == S.incomingTransfers[transferId] # Nil
      created == IF known THEN [ok |-> TRUE, error |-> None, S |-> S,
                                transfer |-> S.incomingTransfers[transferId]]
                 ELSE createIncomingTransfer(S, fromUuid, fromStreamID, payload)
  IN IF ~created.ok THEN
       LET S1 == sendProtocol(S, "file.nack",
                   [transfer_id |-> transferId, expected_seq |-> 0, reason |-> created.error],
                   fromUuid, TRUE, now)
           S2 == queueEvent(S1, [type |-> "file_offer_rejected", transfer_id |-> transferId])
       IN recordProtocolEvent(S2, ProtocolEvent("file.nack", fromUuid, transferId,
                                                [reason |-> created.error]))
     ELSE
       LET incoming == created.transfer
           nextSeq == nextMissingSeq(incoming)
           S1 == [created.S EXCEPT !.incomingTransfers[transferId] = incoming]
           S2 == sendProtocol(S1, "file.accept",
                   [transfer_id |-> transferId, next_seq |-> nextSeq], fromUuid, TRUE, now)
           S3 == queueEvent(S2, [type |-> "file_offer_received", transfer_id |-> transferId,
                                 next_seq |-> nextSeq])
       IN recordProtocolEvent(S3, ProtocolEvent("file.accept", fromUuid, transferId,
                                                [next_seq |-> nextSeq]))

\* The file.chunk branch of handleFileMessage.
handleFileChunk(S, fromUuid, transferId, payload, now) ==
  LET incoming == S.incomingTransfers[transferId]
      seq == nonNegativeIntFromValue(Field(payload, "seq", NoInt), NoInt)
      chunkBuffer == FromBase64(Field(payload, "data_base64", ToBase64(<<>>)))
      chunkHash == sha256Hex(chunkBuffer)
      claimed == Field(payload, "chunk_hash", Nil)
  IN
  IF incoming = Nil THEN NackAndRecord(S, fromUuid, transferId, 0, "unknown_transfer", now)
  ELSE IF seq < 0 \/ seq >= incoming.total_chunks
    THEN NackAndRecord(S, fromUuid, transferId, nextMissingSeq(incoming), "out_of_range_seq", now)
  ELSE IF Len(chunkBuffer) = 0
    THEN NackAndRecord(S, fromUuid, transferId, nextMissingSeq(incoming), "invalid_chunk_data", now)
  ELSE IF claimed # Nil /\ claimed # chunkHash THEN
    LET expectedSeq == nextMissingSeq(incoming)
        S1 == sendProtocol(S, "file.nack",
                [transfer_id |-> transferId, expected_seq |-> expectedSeq,
                 reason |-> "chunk_hash_mismatch"], fromUuid, TRUE, now)
        S2 == queueEvent(S1, [type |-> "file_chunk_rejected", transfer_id |-> transferId,
                              seq |-> seq])
    IN recordProtocolEvent(S2, ProtocolEvent("file.nack", fromUuid, transferId,
                [expected_seq |-> expectedSeq, reason |-> "chunk_hash_mismatch"]))
  ELSE
    LET stored ==
          IF seq \in incoming.received_chunks THEN incoming
          ELSE LET added == [incoming EXCEPT !.received_chunks = @ \cup {seq},
                                             !.received_bytes = @ + Len(chunkBuffer)]
               IN IF incoming.spooled /\ incoming.spool_fd # NoInt
                    THEN [added EXCEPT !.spool_file =
                            WriteAt(@, seq * incoming.chunk_bytes, chunkBuffer)]
                    ELSE [added EXCEPT !.chunks[seq] = chunkBuffer]
        nextSeq == nextMissingSeq(stored)
        S1 == [S EXCEPT !.incomingTransfers[transferId] = stored]
        S2 == sendProtocol(S1, "file.ack",
                [transfer_id |-> transferId, seq |-> seq, next_seq |-> nextSeq,
                 received_bytes |-> stored.received_bytes], fromUuid, TRUE, now)
        S3 == queueEvent(S2, [type |-> "file_chunk_received", transfer_id |-> transferId,
                              seq |-> seq])
    IN IF stored.complete_received /\ nextSeq >= stored.total_chunks
         THEN maybeFinalizeIncomingTransfer(S3, transferId, fromUuid, now).S
         ELSE S3

\* The file.complete branch of handleFileMessage.
handleFileComplete(S, fromUuid, transferId, now) ==
  LET incoming == S.incomingTransfers[transferId]
  IN IF incoming = Nil THEN NackAndRecord(S, fromUuid, transferId, 0, "unknown_transfer", now)
     ELSE
       LET S1 == [S EXCEPT !.incomingTransfers[transferId].complete_received = TRUE]
           final == maybeFinalizeIncomingTransfer(S1, transferId, fromUuid, now)
           after == final.S.incomingTransfers[transferId]
       IN IF final.done THEN final.S
          ELSE
            LET expectedSeq == nextMissingSeq(after)
                reason == IF after.last_error # None THEN after.last_error ELSE "missing_chunks"
                S2 == sendProtocol(final.S, "file.nack",
                        [transfer_id |-> transferId, expected_seq |-> expectedSeq,
                         reason |-> reason], fromUuid, TRUE, now)
            IN recordProtocolEvent(S2, ProtocolEvent("file.nack", fromUuid, transferId,
                        [expected_seq |-> expectedSeq, reason |-> reason]))

\* The file.resume_req branch of handleFileMessage.
handleFileResumeReq(S, fromUuid, transferId, now) ==
  LET incoming == IF transferId = None THEN Nil ELSE S.incomingTransfers[transferId]
      nextSeq == IF incoming # Nil THEN nextMissingSeq(incoming) ELSE 0
      S1 == sendProtocol(S, "file.resume_state",
              [transfer_id |-> transferId, next_seq |-> nextSeq,
               status |-> IF incoming # Nil THEN incoming.status ELSE "unknown_transfer"],
              fromUuid, TRUE, now)
  IN recordProtocolEvent(S1, ProtocolEvent("file.resume_state", fromUuid, transferId,
                                           [next_seq |-> nextSeq]))

\* The file.cancel branch of handleFileMessage.
handleFileCancel(S, fromUuid, transferId, payload) ==
  LET incoming == S.incomingTransfers[transferId]
      cleaned == cleanupTransferStorage(S, [incoming EXCEPT !.status = "cancelled"])
      S1 == IF incoming = Nil THEN S
            ELSE [cleaned.S EXCEPT !.incomingTransfers[transferId] = cleaned.transfer]
      S2 == queueEvent(S1, [type |-> "file_transfer_cancelled", transfer_id |-> transferId])
  IN recordProtocolEvent(S2, ProtocolEvent("file.cancel", fromUuid, transferId, payload))

\* The last branch of handleFileMessage: a reply of the receiver arrives at
\* the sender of the transfer, updates its record and goes on the bus.
handleFileReply(S, fromUuid, transferId, kind, payload) ==
  LET outgoing == IF transferId = None THEN Nil ELSE S.outgoingTransfers[transferId]
      updated ==
        CASE kind = "file.accept" ->
               [outgoing EXCEPT !.status = "transferring",
                                !.next_seq = nonNegativeIntFromValue(Field(payload, "next_seq", NoInt), 0)]
          [] kind = "file.ack" ->
               LET seq == nonNegativeIntFromValue(Field(payload, "seq", NoInt), NoInt)
               IN [outgoing EXCEPT
                     !.acked_chunks = IF seq >= 0 THEN @ \cup {seq} ELSE @,
                     !.next_seq = nonNegativeIntFromValue(Field(payload, "next_seq", NoInt),
                                                          outgoing.next_seq + 1)]
          [] kind = "file.nack" ->
               [outgoing EXCEPT
                  !.next_seq = nonNegativeIntFromValue(Field(payload, "expected_seq", NoInt),
                                                       outgoing.next_seq),
                  !.last_error = Field(payload, "reason", "nack_received")]
          [] kind = "file.complete_ack" -> [outgoing EXCEPT !.status = "completed"]
          [] OTHER ->
               [outgoing EXCEPT
                  !.next_seq = nonNegativeIntFromValue(Field(payload, "next_seq", NoInt),
                                                       outgoing.next_seq)]
      S1 == IF outgoing = Nil THEN S ELSE [S EXCEPT !.outgoingTransfers[transferId] = updated]
  IN recordProtocolEvent(S1, ProtocolEvent(kind, fromUuid, transferId, payload))

handleFileMessage(S, fromUuid, fromStreamID, kind, payload, now) ==
  LET transferId == Field(payload, "transfer_id", None)
  IN
  IF transferId = None /\ kind # "file.resume_state"
    THEN queueEvent(S, [type |-> "file_protocol_error", kind |-> kind])
  ELSE IF kind = "file.offer"
    THEN handleFileOffer(S, fromUuid, fromStreamID, transferId, payload, now)
  ELSE IF kind = "file.chunk" THEN handleFileChunk(S, fromUuid, transferId, payload, now)
  ELSE IF kind = "file.complete" THEN handleFileComplete(S, fromUuid, transferId, now)
  ELSE IF kind = "file.resume_req" THEN handleFileResumeReq(S, fromUuid, transferId, now)
  ELSE IF kind = "file.cancel" THEN handleFileCancel(S, fromUuid, transferId, payload)
  ELSE IF kind \in {"file.accept", "file.ack", "file.nack", "file.complete_ack",
                    "file.resume_state"}
    THEN handleFileReply(S, fromUuid, transferId, kind, payload)
  ELSE queueEvent(S, [type |-> "file_protocol_unhandled", kind |-> kind])

-----------------------------------------------------------------------------
(* Incoming data: the dataReceived listener and the protocol dispatcher *)

isProtocolEnvelope(data) ==
  /\ "vdo_mcp" \in DOMAIN data
  /\ data.vdo_mcp = PROTOCOL_MAGIC
  /\ "kind" \in DOMAIN data

IsSyncKind(kind) == kind \in {"sync.hello", "sync.hello_ack", "sync.reject", "sync.heartbeat"}

IsFileKind(kind) ==
  kind \in {"file.offer", "file.accept", "file.chunk", "file.ack", "file.nack",
            "file.complete", "file.complete_ack", "file.resume_req",
            "file.resume_state", "file.cancel"}

IsStateKind(kind) == kind \in {"state.patch", "state.snapshot", "state.snapshot_req"}

\* handleProtocolMessage: the session afterwards and the engine the envelope
\* was routed to ("auth_failed" when it was dropped at the MAC check).
handleProtocolMessage(S, detail, envelope, now) ==
  LET fromUuid == detail.uuid
      fromStreamID == detail.streamID
      kind == envelope.kind
      payload == envelope.payload
      S1 == IF fromUuid # None THEN touchPeer(S, fromUuid, fromStreamID) ELSE S
  IN
  IF ~IsSyncKind(kind) /\ ~verifyEnvelopeMac(S1, fromUuid, envelope) THEN
    [S |-> recordProtocolEvent(
             queueEvent(S1, [type |-> "protocol_auth_failed", kind |-> kind, uuid |-> fromUuid]),
             ProtocolEvent("protocol_auth_failed", fromUuid, None, [kind |-> kind])),
     route |-> "auth_failed"]
  ELSE IF IsSyncKind(kind)
    THEN [S |-> handleSyncMessage(S1, fromUuid, fromStreamID, kind, payload, now),
          route |-> "sync"]
  ELSE IF IsFileKind(kind)
    THEN [S |-> handleFileMessage(S1, fromUuid, fromStreamID, kind, payload, now),
          route |-> "file"]
  ELSE IF IsStateKind(kind)
    THEN [S |-> handleStateMessage(S1, fromUuid, fromStreamID, kind, payload, now),
          route |-> "state"]
  ELSE [S |-> queueEvent(S1, [type |-> "protocol_unknown", kind |-> kind, uuid |-> fromUuid]),
        route |-> "unknown"]

\* The dataReceived listener of attachListeners.
dataReceived(S, detail, now) ==
  IF isProtocolEnvelope(detail.data) THEN handleProtocolMessage(S, detail, detail.data, now)
  ELSE [S |-> queueEvent(S, [type |-> "data_received", uuid |-> detail.uuid,
                             data |-> detail.data]),
        route |-> "app"]

-----------------------------------------------------------------------------
(* FileTransferEngine: the sending side *)

\* retries_by_seq is a Map from sequence numbers to counts.
EmptyMap == [q \in {} |-> 0]

MapGet(map, key) == IF key \in DOMAIN map THEN map[key] ELSE 0

MapSet(map, key, value) ==
  [q \in DOMAIN map \cup {key} |-> IF q = key THEN value ELSE map[q]]

\* buildOutgoingTransfer from a data buffer: the record it stores under the
\* transfer id, or the error it throws.
buildOutgoingTransfer(S, options) ==
  LET chunkBytes == clampInt(options.chunkBytes, S.config.fileChunkBytes,
                             MIN_CHUNK_BYTES, MAX_CHUNK_BYTES)
      dataBuffer == options.dataBuffer
      chunks == ZeroBased(SplitChunks(dataBuffer, chunkBytes, 0))
      transfer ==
        [transfer_id |-> options.transferId, status |-> "offered",
         total_bytes |-> Len(dataBuffer), total_chunks |-> Cardinality(DOMAIN chunks),
         chunk_bytes |-> chunkBytes, target_uuid |-> options.targetUuid,
         file_hash |-> sha256Hex(dataBuffer), chunks |-> chunks,
         chunk_hashes |-> [i \in DOMAIN chunks |-> sha256Hex(chunks[i])],
         next_seq |-> 0, acked_chunks |-> {}, retries_by_seq |-> EmptyMap,
         retries_total |-> 0, last_error |-> None]
  IN IF Len(dataBuffer) <= 0
       THEN [ok |-> FALSE, error |-> "file data must not be empty", S |-> S]
     ELSE IF Len(dataBuffer) > S.config.fileMaxBytes
       THEN [ok |-> FALSE, error |-> "file exceeds max bytes", S |-> S]
     ELSE [ok |-> TRUE, error |-> None,
           S |-> [S EXCEPT !.outgoingTransfers[options.transferId] = transfer]]

\* getOutgoingChunk: the chunk, or the empty buffer for null.
getOutgoingChunk(transfer, seq) ==
  IF seq < 0 \/ seq >= transfer.total_chunks THEN <<>> ELSE transfer.chunks[seq]

\* findProtocolEvent: the first event on the bus after minCursor that the
\* predicate accepts, or Nil.  The predicate is given as the set of events
\* it accepts.
findProtocolEvent(S, predicate, minCursor) ==
  LET hits == SelectSeq(S.protocolEvents, LAMBDA e : e.cursor > minCursor /\ e \in predicate)
  IN IF hits = <<>> THEN Nil ELSE Head(hits)

\* The kinds of event that end the wait a call is suspended in.
WaitKinds(pc) ==
  CASE pc = "accept" -> {"file.accept"}
    [] pc = "ack" -> {"file.ack", "file.nack"}
    [] pc = "complete" -> {"file.complete_ack"}
    [] pc \in {"resume_pre", "loop_resume", "final_resume"} -> {"file.resume_state"}
    [] OTHER -> {}

\* What waitForProtocolEvent finds for the suspended call: the first event
\* of the awaited kinds for the call's transfer, from its target, recorded
\* after the cursor the call captured; Nil when there is none.
Awaited(S, frame) ==
  IF frame.pc = "idle" THEN Nil
  ELSE findProtocolEvent(S,
         {e \in {S.protocolEvents[i] : i \in DOMAIN S.protocolEvents} :
            /\ e.kind \in WaitKinds(frame.pc)
            /\ e.transfer_id = frame.transfer_id
            /\ e.from_uuid = S.outgoingTransfers[frame.transfer_id].target_uuid},
         frame.cursor)

\* The call returns or throws.
Return(S, frame, outcome) ==
  [S |-> S, call |-> [frame EXCEPT !.pc = "idle", !.outcome = outcome]]

\* The call suspends in a wait, having captured the bus cursor before what
\* it sent last.
Suspend(S, frame, pc, cursor) ==
  [S |-> S, call |-> [frame EXCEPT !.pc = pc, !.cursor = cursor]]

\* The call marks its transfer failed and throws.
FailTransfer(S, frame, error) ==
  Return([S EXCEPT !.outgoingTransfers[frame.transfer_id].status = "failed",
                   !.outgoingTransfers[frame.transfer_id].last_error = error],
         frame, "failed")

\* requestResumeState up to its wait: file.resume_req is sent.
requestResumeState(S, transfer, now) ==
  sendProtocol(S, "file.resume_req", [transfer_id |-> transfer.transfer_id],
               transfer.target_uuid, TRUE, now)

\* requestResumeState after its wait: null (NoInt) without an event.
ResumeSeq(event, transfer) ==
  IF event = Nil THEN NoInt
  ELSE nonNegativeIntFromValue(Field(event.payload, "next_seq", NoInt), transfer.next_seq)

RECURSIVE EvictOutgoing(_)
\* The eviction loop at the end of transmitOutgoingTransfer.
EvictOutgoing(S) ==
  IF Len(S.completedOutgoingOrder) <= S.config.maxStoredFiles THEN S
  ELSE LET oldestId == Head(S.completedOutgoingOrder)
           candidate == S.outgoingTransfers[oldestId]
           S1 == [S EXCEPT !.completedOutgoingOrder = Tail(S.completedOutgoingOrder)]
       IN EvictOutgoing(IF candidate # Nil /\ candidate.status = "completed"
                          THEN [S1 EXCEPT !.outgoingTransfers[oldestId] = Nil]
                          ELSE S1)

\* transmitOutgoingTransfer from the transfer's completion to its return.
TransmitFinish(S, frame) ==
  LET id == frame.transfer_id
      S1 == [S EXCEPT !.outgoingTransfers[id].status = "completed",
                      !.completedOutgoingOrder = Append(S.completedOutgoingOrder, id)]
      transfer == S1.outgoingTransfers[id]
      S2 == EvictOutgoing(S1)
  IN Return(queueEvent(S2, [type |-> "file_transfer_complete", transfer_id |-> id,
                            retries_total |-> transfer.retries_total]),
            frame, "completed")

\* transmitOutgoingTransfer after the chunk loop: file.complete is sent and
\* the call waits for file.complete_ack.
TransmitComplete(S, frame, now) ==
  LET transfer == S.outgoingTransfers[frame.transfer_id]
  IN Suspend(sendProtocol(S, "file.complete",
                          [transfer_id |-> transfer.transfer_id,
                           total_bytes |-> transfer.total_bytes,
                           file_hash |-> transfer.file_hash],
                          transfer.target_uuid, TRUE, now),
             frame, "complete", S.protocolCursor)

\* ChargeRetry without the charge: the failed attempt is not counted.
ChargeRetryNone(S, frame, seq) ==
  [S |-> S, call |-> frame]

\* One failed attempt is charged to seq: retries_by_seq and retries_total
\* on the transfer, and the count of the running call.
ChargeRetry(S, frame, seq) ==
  [S |-> [S EXCEPT !.outgoingTransfers[frame.transfer_id].retries_by_seq =
                      MapSet(@, seq, frame.retriesForSeq + 1),
                   !.outgoingTransfers[frame.transfer_id].retries_total = @ + 1],
   call |-> [frame EXCEPT !.charged = MapSet(@, seq, MapGet(@, seq) + 1)]]

\* One pass of the inner loop up to its wait: the retry check, then the
\* file.chunk for the current seq. The chunk and its hash are those that
\* the outer loop read, for the seq it had then (frame.chunkSeq).
TransmitChunk(S, frame, now) ==
  LET transfer == S.outgoingTransfers[frame.transfer_id]
      seq == frame.seq
      retriesForSeq == MapGet(transfer.retries_by_seq, seq)
      chunk == getOutgoingChunk(transfer, frame.chunkSeq)
      chunkHash == transfer.chunk_hashes[frame.chunkSeq]
  IN IF retriesForSeq > frame.maxRetries
       THEN FailTransfer(S, frame, "max retries exceeded")
     ELSE Suspend(sendProtocol(S, "file.chunk",
                               [transfer_id |-> transfer.transfer_id, seq |-> seq,
                                data_base64 |-> ToBase64(chunk), chunk_hash |-> chunkHash],
                               transfer.target_uuid, TRUE, now),
                  [frame EXCEPT !.retriesForSeq = retriesForSeq,
                                !.firstChunk = IF @ = NoInt THEN seq ELSE @],
                  "ack", S.protocolCursor)

\* The head of the outer loop: past the last chunk the call goes on to
\* file.complete, else it reads the chunk for seq and enters the inner loop.
TransmitChunkLoop(S, frame, now) ==
  LET transfer == S.outgoingTransfers[frame.transfer_id]
  IN IF frame.seq >= transfer.total_chunks THEN TransmitComplete(S, frame, now)
     ELSE IF Len(getOutgoingChunk(transfer, frame.seq)) = 0
       THEN FailTransfer(S, frame, "missing chunk data")
     ELSE TransmitChunk(S, [frame EXCEPT !.chunkSeq = frame.seq], now)

\* transmitOutgoingTransfer up to its first wait: the retry bound of the
\* call, then file.offer.
transmitOutgoingTransfer(S, frame, now) ==
  LET transfer == S.outgoingTransfers[frame.transfer_id]
      maxRetries == intFromValue(frame.optMaxRetries, S.config.fileMaxRetries)
  IN Suspend(sendProtocol(S, "file.offer",
                          [transfer_id |-> transfer.transfer_id,
                           total_bytes |-> transfer.total_bytes,
                           total_chunks |-> transfer.total_chunks,
                           chunk_bytes |-> transfer.chunk_bytes,
                           file_hash |-> transfer.file_hash],
                          transfer.target_uuid, TRUE, now),
             [frame EXCEPT !.maxRetries = maxRetries], "accept", S.protocolCursor)

\* After the wait for file.accept.
TransmitAccepted(S, frame, accepted, now) ==
  IF accepted = Nil THEN Return(S, frame, "timed_out")
  ELSE
    LET nextSeq == nonNegativeIntFromValue(Field(accepted.payload, "next_seq", NoInt), 0)
        S1 == [S EXCEPT !.outgoingTransfers[frame.transfer_id].status = "transferring",
                        !.outgoingTransfers[frame.transfer_id].next_seq = nextSeq]
    IN TransmitChunkLoop(S1, [frame EXCEPT !.seq = nextSeq], now)

\* After the wait for file.ack or file.nack to the chunk sent last.
TransmitResponse(S, frame, response, now) ==
  LET id == frame.transfer_id
      transfer == S.outgoingTransfers[id]
      seq == frame.seq
  IN
  IF response = Nil THEN
    LET charged == ChargeRetry(S, frame, seq)
    IN Suspend(requestResumeState(charged.S, transfer, now), charged.call,
               "loop_resume", charged.S.protocolCursor)
  ELSE IF response.kind = "file.nack" THEN
    LET charged == ChargeRetry(S, frame, seq)
        expected == nonNegativeIntFromValue(Field(response.payload, "expected_seq", NoInt), seq)
    IN TransmitChunkLoop([charged.S EXCEPT !.outgoingTransfers[id].next_seq = expected],
                         [charged.call EXCEPT !.seq = expected], now)
  ELSE
    LET nextSeq == nonNegativeIntFromValue(Field(response.payload, "next_seq", NoInt), seq + 1)
        newSeq == Max(seq + 1, nextSeq)
    IN TransmitChunkLoop(
         [S EXCEPT !.outgoingTransfers[id].acked_chunks = @ \cup {seq},
                   !.outgoingTransfers[id].next_seq = Min(newSeq, transfer.total_chunks)],
         [frame EXCEPT !.seq = newSeq], now)

\* After the resume report asked for when the wait for a response timed
\* out: seq moves to the reported value and the inner loop goes round.
TransmitResumed(S, frame, resume, now) ==
  LET id == frame.transfer_id
      transfer == S.outgoingTransfers[id]
      resumeSeq == ResumeSeq(resume, transfer)
      seq == Min(Max(resumeSeq, 0), transfer.total_chunks)
  IN IF resumeSeq = NoInt THEN TransmitChunk(S, frame, now)
     ELSE TransmitChunk([S EXCEPT !.outgoingTransfers[id].next_seq = seq],
                        [frame EXCEPT !.seq = seq], now)

\* After the wait for file.complete_ack.
TransmitCompleteAck(S, frame, completeAck, now) ==
  IF completeAck # Nil THEN TransmitFinish(S, frame)
  ELSE Suspend(requestResumeState(S, S.outgoingTransfers[frame.transfer_id], now),
               frame, "final_resume", S.protocolCursor)

\* After the resume report asked for when file.complete_ack did not come.
TransmitFinalResume(S, frame, resume) ==
  LET transfer == S.outgoingTransfers[frame.transfer_id]
      resumeSeq == ResumeSeq(resume, transfer)
  IN IF resumeSeq # NoInt /\ resumeSeq >= transfer.total_chunks
       THEN TransmitFinish(S, frame)
       ELSE FailTransfer(S, frame, "timed out waiting for file.complete_ack")

\* resumeOutgoingTransfer after the resume report it asks for first.
ResumeReported(S, frame, resume, now) ==
  LET id == frame.transfer_id
      transfer == S.outgoingTransfers[id]
      resumeSeq == ResumeSeq(resume, transfer)
      S1 == IF resumeSeq = NoInt THEN S
            ELSE [S EXCEPT !.outgoingTransfers[id].next_seq =
                    Min(Max(resumeSeq, 0), transfer.total_chunks)]
  IN transmitOutgoingTransfer(S1, frame, now)

\* The suspended call goes on with what its wait gave it: an event, or Nil
\* when the wait timed out.
Continue(S, frame, event, now) ==
  CASE frame.pc = "accept" -> TransmitAccepted(S, frame, event, now)
    [] frame.pc = "ack" -> TransmitResponse(S, frame, event, now)
    [] frame.pc = "loop_resume" -> TransmitResumed(S, frame, event, now)
    [] frame.pc = "complete" -> TransmitCompleteAck(S, frame, event, now)
    [] frame.pc = "final_resume" -> TransmitFinalResume(S, frame, event)
    [] frame.pc = "resume_pre" -> ResumeReported(S, frame, event, now)
    [] OTHER -> [S |-> S, call |-> frame]

\* A listener has run and left session S: a call suspended in a wait that
\* the bus now satisfies is continued before anything else happens.
Woken(S, frame, now) ==
  IF Awaited(S, frame) = Nil THEN [S |-> S, call |-> frame]
  ELSE Continue(S, frame, Awaited(S, frame), now)

\* sendFile(options) up to its first wait.
sendFile(S, frame, options, now) ==
  LET built == buildOutgoingTransfer(S, options)
  IN IF ~built.ok THEN Return(S, frame, "rejected")
     ELSE transmitOutgoingTransfer(built.S, frame, now)

\* resumeOutgoingTransfer(transferId, options) up to its first wait: with a
\* start_seq (frame.optStartSeq) next_seq is set from it and the transfer
\* is transmitted, without one the receiver is asked for its resume state.
resumeOutgoingTransfer(S, frame, now) ==
  LET transfer == S.outgoingTransfers[frame.transfer_id]
  IN IF transfer = Nil THEN Return(S, frame, "unknown_transfer")
     ELSE IF transfer.status = "completed" THEN Return(S, frame, "completed")
     ELSE IF frame.optStartSeq # NoInt
       THEN transmitOutgoingTransfer(
              [S EXCEPT !.outgoingTransfers[frame.transfer_id].next_seq =
                 Min(Max(nonNegativeIntFromValue(frame.optStartSeq, transfer.next_seq), 0),
                     transfer.total_chunks)],
              frame, now)
     ELSE Suspend(requestResumeState(S, transfer, now), frame, "resume_pre",
                  S.protocolCursor)

-----------------------------------------------------------------------------
(* Construction *)

DEFAULT_FILE_MAX_RETRIES == 6

DEFAULT_STATE_MAX_KEYS == 2048

DEFAULT_STATE_MAX_SNAPSHOT_ENTRIES == 4096

\* The constructor's this.config, from the options it is given (a number
\* option that is not set is 0, a string or token option None / Nil).
BridgeSession(options) ==
  [streamID |-> options.streamID,
   reconnectDelayMs |-> intFromValue(options.reconnectDelayMs, 3000),
   maxReconnectDelayMs |-> intFromValue(options.maxReconnectDelayMs, 30000),
   maxQueueSize |-> intFromValue(options.maxQueueSize, 2000),
   joinToken |-> options.joinToken,
   joinTokenSecret |-> options.joinTokenSecret,
   joinTokenTtlMs |-> intFromValue(options.joinTokenTtlMs, 600000),
   enforceJoinToken |-> options.enforceJoinToken,
   allowPeerStreamIDs |-> options.allowPeerStreamIDs,
   fileChunkBytes |-> clampInt(IF options.fileChunkBytes > 0 THEN options.fileChunkBytes ELSE NoInt,
                               64, MIN_CHUNK_BYTES, MAX_CHUNK_BYTES),
   fileMaxBytes |-> intFromValue(options.fileMaxBytes, 65536),
   fileMaxRetries |-> intFromValue(options.fileMaxRetries, DEFAULT_FILE_MAX_RETRIES),
   maxStoredFiles |-> intFromValue(options.maxStoredFiles, 12),
   requireSessionMac |-> options.requireSessionMac,
   fileSpoolThresholdBytes |-> intFromValue(options.fileSpoolThresholdBytes, 4096),
   keepSpoolFiles |-> options.keepSpoolFiles,
   stateMaxKeys |-> intFromValue(options.stateMaxKeys, DEFAULT_STATE_MAX_KEYS),
   stateMaxSnapshotEntries |-> intFromValue(options.stateMaxSnapshotEntries,
                                            DEFAULT_STATE_MAX_SNAPSHOT_ENTRIES)]

\* Options that set nothing but the stream id and the event queue size.
PlainOptions(s) ==
  [streamID |-> StreamIdOf(s), maxQueueSize |-> 1, joinToken |-> Nil,
   joinTokenSecret |-> None, joinTokenTtlMs |-> 0, enforceJoinToken |-> FALSE,
   allowPeerStreamIDs |-> {}, fileChunkBytes |-> 1, fileMaxBytes |-> 0,
   fileMaxRetries |-> 0, maxStoredFiles |-> 0, requireSessionMac |-> FALSE,
   fileSpoolThresholdBytes |-> 0, keepSpoolFiles |-> FALSE, stateMaxKeys |-> 0,
   stateMaxSnapshotEntries |-> 0, reconnectDelayMs |-> 0, maxReconnectDelayMs |-> 0]

\* The frame of the sendFile or resume call of a session: where the call is
\* suspended (pc), its options and locals, and, for the claims, what the
\* call found and did: the status of the transfer and the number of
\* transport faults when it started, the failed attempts it charged to each
\* seq, and the waits of it that timed out.
NoCall ==
  [pc |-> "idle", op |-> None, transfer_id |-> None, optMaxRetries |-> NoInt,
   maxRetries |-> 0, seq |-> 0, chunkSeq |-> 0, retriesForSeq |-> 0, cursor |-> 0,
   outcome |-> None, calls |-> 0, statusBefore |-> None, faultsBefore |-> 0,
   charged |-> EmptyMap, timeouts |-> 0, optStartSeq |-> NoInt, firstChunk |-> NoInt,
   resolved |-> Nil]

NoStep == [act |-> None, s |-> None, from |-> None, data |-> Nil, route |-> None, out |-> {}]

\* running, connecting, state, sdk and the two timers of a session that
\* start() has connected: the SDK is up with the listeners attached and the
\* heartbeat runs.
Connected ==
  [running |-> TRUE, connecting |-> FALSE, state |-> "connected", sdk |-> TRUE,
   reconnectTimer |-> FALSE, heartbeatTimer |-> TRUE,
   connectedPeers |-> {}, channels |-> {},
   currentReconnectDelayMs |-> 0, reconnectCount |-> 0,
   connectPc |-> "none", starting |-> FALSE, syncTick |-> 0]

\* The fields of session s as the constructor leaves them, connected by
\* start().
Fresh(s, options) ==
  [id |-> s,
   config |-> BridgeSession(options),
   peerState |-> [u \in Uuids |-> Nil],
   sharedKeys |-> [u \in Uuids |-> Nil],
   roomState |-> [k \in StateKeys |-> Nil],
   stateClock |-> 0,
   stateActorClock |-> [actor \in StreamIds |-> 0],
   incomingTransfers |-> [id \in TransferIds |-> Nil],
   outgoingTransfers |-> [id \in TransferIds |-> Nil],
   completedIncomingOrder |-> <<>>,
   completedOutgoingOrder |-> <<>>,
   protocolEvents |-> <<>>,
   protocolCursor |-> 0,
   eventQueue |-> <<>>,
   lifecycle |-> [Connected EXCEPT
                    !.connectedPeers = Peers(s), !.channels = Peers(s),
                    !.currentReconnectDelayMs = BridgeSession(options).reconnectDelayMs],
   disk |-> EmptyDisk,
   poll |-> NoPoll,
   ok |-> TRUE,
   out |-> {}]

\* let chain = Promise.resolve(): no dispatch queued, none running, no
\* message parsed yet.
NoDispatch == [queued |-> <<>>, running |-> Nil, parsed |-> 0]

\* The variables hold the sessions F, nothing is in flight and no call runs.
Installed(F) ==
  /\ config = [s \in Sessions |-> F[s].config]
  /\ peerState = [s \in Sessions |-> F[s].peerState]
  /\ sharedKeys = [s \in Sessions |-> F[s].sharedKeys]
  /\ roomState = [s \in Sessions |-> F[s].roomState]
  /\ stateClock = [s \in Sessions |-> F[s].stateClock]
  /\ stateActorClock = [s \in Sessions |-> F[s].stateActorClock]
  /\ incomingTransfers = [s \in Sessions |-> F[s].incomingTransfers]
  /\ outgoingTransfers = [s \in Sessions |-> F[s].outgoingTransfers]
  /\ completedIncomingOrder = [s \in Sessions |-> F[s].completedIncomingOrder]
  /\ completedOutgoingOrder = [s \in Sessions |-> F[s].completedOutgoingOrder]
  /\ protocolEvents = [s \in Sessions |-> F[s].protocolEvents]
  /\ protocolCursor = [s \in Sessions |-> F[s].protocolCursor]
  /\ eventQueue = [s \in Sessions |-> F[s].eventQueue]
  /\ lifecycle = [s \in Sessions |-> F[s].lifecycle]
  /\ disk = [s \in Sessions |-> F[s].disk]
  /\ poll = [s \in Sessions |-> F[s].poll]
  /\ call = [s \in Sessions |-> NoCall]
  /\ chain = NoDispatch
  /\ net = EmptyBag
  /\ faults = 0
  /\ last = NoStep

\* Freshly constructed sessions.
Constructed(options) == Installed([s \in Sessions |-> Fresh(s, options[s])])

-----------------------------------------------------------------------------
(* Steps shared by the specifications *)

MaxSets == 2

MaxFaults == 1

MaxInFlight == 2

MaxEvents == 2

InFlight == BagToSet(net)

\* The number of protocol events recorded so far, over all sessions.
Recorded == protocolCursor["a"] + protocolCursor["b"]

Detail(m) == [uuid |-> m.uuid, streamID |-> m.streamID, data |-> m.data]

\* The transport hands envelope m to the dataReceived listener of m.to.
DataReceived(m, now) ==
  /\ lifecycle[m.to].sdk
  /\ \E r \in {dataReceived(Self(m.to), Detail(m), now)} :
     \E w \in {Woken(r.S, call[m.to], now)} :
     /\ Commit(w.S)
     /\ call' = [call EXCEPT ![m.to] = w.call]
     /\ net' = (net (-) SetToBag({m})) (+) SetToBag(Delivered(w.S))
     /\ last' = [act |-> "dataReceived", s |-> m.to, from |-> m.uuid, data |-> m.data,
                 route |-> r.route, out |-> w.S.out]
     /\ UNCHANGED faults

\* The transport loses envelope m, within a budget of faults.
Drop(m, budget) ==
  /\ faults < budget
  /\ net' = net (-) SetToBag({m})
  /\ faults' = faults + 1
  /\ last' = [NoStep EXCEPT !.act = "lose", !.s = m.to, !.from = m.uuid, !.data = m.data]
  /\ UNCHANGED <<config, peerState, sharedKeys, roomState, stateClock, stateActorClock,
                 incomingTransfers, outgoingTransfers, completedIncomingOrder,
                 completedOutgoingOrder, protocolEvents, protocolCursor, eventQueue,
                 lifecycle, disk, poll, chain, call>>

Lose(m) == Drop(m, MaxFaults)

\* The transport delivers envelope m and keeps a second copy in flight.
Duplicate(m, now) ==
  /\ faults < MaxFaults
  /\ lifecycle[m.to].sdk
  /\ \E r \in {dataReceived(Self(m.to), Detail(m), now)} :
     \E w \in {Woken(r.S, call[m.to], now)} :
     /\ Commit(w.S)
     /\ call' = [call EXCEPT ![m.to] = w.call]
     /\ net' = net (+) SetToBag(Delivered(w.S))
     /\ faults' = faults + 1
     /\ last' = [act |-> "dataReceived", s |-> m.to, from |-> m.uuid, data |-> m.data,
                 route |-> r.route, out |-> w.S.out]

\* The state_set tool: setLocalState(key, value, {broadcast, target}).
SetLocalState(s, key, value, broadcast, target) ==
  /\ stateClock["a"] + stateClock["b"] < MaxSets
  /\ BagCardinality(net) < MaxInFlight
  /\ \E S \in {setLocalState(Self(s), key, value, broadcast, target, 0)} :
     /\ Commit(S)
     /\ net' = net (+) SetToBag(Delivered(S))
     /\ last' = [NoStep EXCEPT !.act = "setLocalState", !.s = s, !.out = S.out]
     /\ UNCHANGED <<call, faults>>

\* The state_sync tool: requestStateSnapshot(target).
RequestStateSnapshot(s, target) ==
  /\ BagCardinality(net) < MaxInFlight
  /\ Recorded < MaxEvents
  /\ \E S \in {requestStateSnapshot(Self(s), target, 0)} :
     /\ Commit(S)
     /\ net' = net (+) SetToBag(Delivered(S))
     /\ last' = [NoStep EXCEPT !.act = "requestStateSnapshot", !.s = s, !.out = S.out]
     /\ UNCHANGED <<call, faults>>

-----------------------------------------------------------------------------
(* SpecState: the room state of two sessions under sets, patches, snapshots *)

InitState == Constructed([s \in Sessions |-> PlainOptions(s)])

NextState ==
  \/ \E s \in Sessions, key \in StateKeys, value \in StateValues, broadcast \in BOOLEAN :
       SetLocalState(s, key, value, broadcast, None)
  \/ \E s \in Sessions : RequestStateSnapshot(s, None)
  \/ \E m \in InFlight : DataReceived(m, 0)
  \/ \E m \in InFlight : Lose(m)
  \/ \E m \in InFlight : Duplicate(m, 0)

SpecState == InitState /\ [][NextState]_vars

-----------------------------------------------------------------------------
(* SpecKeys: first writes and overwrites of the room state under a key limit *)

\* The state_max_keys of the two sessions: below the number of keys in use,
\* and equal to it.
KeyLimits == {1, Cardinality(StateKeys)}

KeysOptions(s, limit) == [PlainOptions(s) EXCEPT !.stateMaxKeys = limit]

InitKeys == \E limit \in KeyLimits : Constructed([s \in Sessions |-> KeysOptions(s, limit)])

\* The state_set tool on a key the session holds no entry for.
FirstSet(s, key) ==
  /\ roomState[s][key] = Nil
  /\ SetLocalState(s, key, "v1", TRUE, None)

\* The state_set tool on a key whose current entry the session has applied
\* from another actor: the session overwrites it with a new value.
Overwrite(s, key) ==
  /\ roomState[s][key] # Nil
  /\ roomState[s][key].actor # config[s].streamID
  /\ SetLocalState(s, key, "v2", TRUE, None)

NextKeys ==
  \/ \E s \in Sessions, key \in StateKeys : FirstSet(s, key)
  \/ \E s \in Sessions, key \in StateKeys : Overwrite(s, key)
  \/ \E s \in Sessions : RequestStateSnapshot(s, None)
  \/ \E m \in InFlight : DataReceived(m, 0)

SpecKeys == InitKeys /\ [][NextKeys]_vars

-----------------------------------------------------------------------------
(* SpecSync: handshake, admission and the session MAC, with an outsider *)

sendSyncHello(S, targetUuid, now) ==
  queueEvent(sendProtocol(S, "sync.hello", Nil, targetUuid, FALSE, now),
             [type |-> "sync_hello_sent", target_uuid |-> targetUuid])

\* The dataChannelOpen listener of attachListeners.
dataChannelOpen(S, uuid, now) ==
  sendSyncHello(touchPeer(queueEvent(S, [type |-> "data_channel_open", uuid |-> uuid]),
                          uuid, None),
                uuid, now)

\* The time of the handshake, in the unit of a join token's exp.
Now == 2

RoomSecret == "room_secret"

\* The room-wide security settings a run starts from.
SyncVariants ==
  { [requireSessionMac |-> FALSE, enforceJoinToken |-> FALSE, secret |-> None, allow |-> {}],
    [requireSessionMac |-> TRUE, enforceJoinToken |-> TRUE, secret |-> RoomSecret, allow |-> {}],
    [requireSessionMac |-> FALSE, enforceJoinToken |-> TRUE, secret |-> None, allow |-> {}],
    [requireSessionMac |-> FALSE, enforceJoinToken |-> FALSE, secret |-> None,
     allow |-> {"agent_a", "agent_b"}] }

SyncOptions(s, v) ==
  [PlainOptions(s) EXCEPT !.requireSessionMac = v.requireSessionMac,
                          !.enforceJoinToken = v.enforceJoinToken,
                          !.joinTokenSecret = v.secret,
                          !.joinTokenTtlMs = 1,
                          !.allowPeerStreamIDs = v.allow]

InitSync == \E v \in SyncVariants : Constructed([s \in Sessions |-> SyncOptions(s, v)])

\* A join token over the given claims, signed with the given secret.
TokenOver(room, streamID, exp, secret) ==
  createJoinToken([room |-> room, stream_id |-> streamID, exp |-> exp], secret)

\* The join tokens the outsider may present: none, one minted for it with
\* the room secret, and tokens with a bad signature, for another room, for
\* another stream id, and expired.
OutsiderTokens ==
  { Nil,
    TokenOver(Room, "agent_x", Now + 1, RoomSecret),
    TokenOver(Room, "agent_x", Now + 1, "other_secret"),
    TokenOver("other_room", "agent_x", Now + 1, RoomSecret),
    TokenOver(Room, "agent_b", Now + 1, RoomSecret),
    TokenOver(Room, "agent_x", Now - 1, RoomSecret) }

OutsiderEnvelope(kind, payload) ==
  [vdo_mcp |-> PROTOCOL_MAGIC, kind |-> kind, room |-> Room, from_stream_id |-> "agent_x",
   payload |-> payload, mac |-> Nil]

\* The mac fields the outsider may put on an envelope for session s: the
\* empty string, and the tag under the key that s would derive for it.
OutsiderMacs(s, envelope) ==
  {EmptyMac, computeEnvelopeMac(envelope, diffieHellman(s, PublicKeyOf("x")))}

OutsiderHello(token) ==
  OutsiderEnvelope("sync.hello",
    [capabilities |-> Capabilities, public_key |-> PublicKeyOf("x"), join_token |-> token])

OutsiderOffer ==
  OutsiderEnvelope("file.offer",
    [transfer_id |-> "t1", total_bytes |-> 1, total_chunks |-> 1, chunk_bytes |-> 1,
     file_hash |-> sha256Hex(<<9>>)])

OutsiderPatch ==
  OutsiderEnvelope("state.patch", [key |-> "k1", value |-> "v1", actor |-> "agent_x", clock |-> 1])

\* What the outsider may send while it asks for admission: a hello with any
\* of its tokens, a file offer, a state patch, application data.
OutsiderData ==
  {OutsiderHello(token) : token \in OutsiderTokens}
    \cup {OutsiderOffer, OutsiderPatch, [app |-> "text"]}

\* What the outsider may send to session s to try the session MAC: file and
\* state envelopes under each of its mac fields.
OutsiderSigned(s) ==
  UNION { { [envelope EXCEPT !.mac = mac] : mac \in OutsiderMacs(s, envelope) } :
          envelope \in {OutsiderOffer, OutsiderPatch} }

\* A data channel to peer u opens on session s.
DataChannelOpen(s, u) ==
  /\ peerState[s][u] = Nil
  /\ \E S \in {dataChannelOpen(Self(s), u, Now)} :
     /\ Commit(S)
     /\ net' = net (+) SetToBag(Delivered(S))
     /\ last' = [NoStep EXCEPT !.act = "dataChannelOpen", !.s = s, !.out = S.out]
     /\ UNCHANGED <<call, faults>>

\* The number of protocol events session s has recorded from peer u.
Heard(s, u) == Len(SelectSeq(protocolEvents[s], LAMBDA e : e.from_uuid = u))

\* The outsider's data arrives at session s.
Inject(s, data) ==
  /\ Heard(s, "x") < MaxEvents
  /\ lifecycle[s].sdk
  /\ \E r \in {dataReceived(Self(s), [uuid |-> "x", streamID |-> "agent_x", data |-> data], Now)} :
     /\ Commit(r.S)
     /\ net' = net (+) SetToBag(Delivered(r.S))
     /\ last' = [act |-> "dataReceived", s |-> s, from |-> "x", data |-> data,
                 route |-> r.route, out |-> r.S.out]
     /\ UNCHANGED <<call, faults>>

\* The transport alters envelope m in flight.
Tamper(m) ==
  /\ faults < MaxFaults
  /\ isProtocolEnvelope(m.data)
  /\ m.data.room = Room
  /\ net' = (net (-) SetToBag({m})) (+) SetToBag({[m EXCEPT !.data.room = "tampered"]})
  /\ faults' = faults + 1
  /\ last' = [NoStep EXCEPT !.act = "tamper", !.s = m.to, !.from = m.uuid, !.data = m.data]
  /\ UNCHANGED <<config, peerState, sharedKeys, roomState, stateClock, stateActorClock,
                 incomingTransfers, outgoingTransfers, completedIncomingOrder,
                 completedOutgoingOrder, protocolEvents, protocolCursor, eventQueue,
                 lifecycle, disk, poll, chain, call>>

NextSync ==
  \/ DataChannelOpen("a", "b")
  \/ \E m \in InFlight : DataReceived(m, Now)
  \/ \E data \in OutsiderData : Inject("a", data)

SpecSync == InitSync /\ [][NextSync]_vars

-----------------------------------------------------------------------------
(* SpecMac: the session MAC on what is sent and what is received *)

\* The envelope of the given kind that S has sent to peer u.
Sent(S, kind, u) == CHOOSE m \in S.out : m.to = u /\ m.data.kind = kind

\* Session S after its dataReceived listener has run on envelope m, with
\* only the envelopes that run sent in S.out.
After(S, m, now) == dataReceived([S EXCEPT !.out = {}], Detail(m), now).S

\* Sessions a and b have completed the handshake that a's open data channel
\* starts: hello, hello_ack, and the snapshot request and snapshot in each
\* direction, each handled by the listener that receives it.
Established(options, now) ==
  \E a0 \in {dataChannelOpen(Fresh("a", options["a"]), "b", now)} :
  \E b1 \in {After(Fresh("b", options["b"]), Sent(a0, "sync.hello", "b"), now)} :
  \E a1 \in {After(a0, Sent(b1, "sync.hello_ack", "a"), now)} :
  \E a2 \in {After(a1, Sent(b1, "state.snapshot_req", "a"), now)} :
  \E b2 \in {After(b1, Sent(a1, "state.snapshot_req", "b"), now)} :
  \E b3 \in {After(b2, Sent(a2, "state.snapshot", "b"), now)} :
  \E a3 \in {After(a2, Sent(b2, "state.snapshot", "a"), now)} :
    Installed([s \in Sessions |-> IF s = "a" THEN a3 ELSE b3])

InitMac ==
  \E v \in {w \in SyncVariants : w.enforceJoinToken = w.requireSessionMac /\ w.allow = {}} :
    Established([s \in Sessions |-> SyncOptions(s, v)], Now)

NextMac ==
  \/ \E m \in InFlight : DataReceived(m, Now)
  \/ \E data \in OutsiderSigned("a") : Inject("a", data)
  \/ \E target \in {None, "a"} : SetLocalState("b", "k1", "v1", TRUE, target)
  \/ \E m \in InFlight : Tamper(m)

SpecMac == InitMac /\ [][NextMac]_vars

-----------------------------------------------------------------------------
(* SpecFile, SpecLoss: one file transfer from session a to session b *)

MaxCalls == 2

MaxLosses == 2

\* The payloads of sendFile, in units of the chunk size.
Payloads == {<<1, 2>>, <<1, 2, 3>>}

\* The max_retries option of a call: not given, 0, 1.
RetryOptions == {NoInt, 0, 1}

FileOptions(s) == [PlainOptions(s) EXCEPT !.fileMaxRetries = 1]

InitFile == Established([s \in Sessions |-> FileOptions(s)], Now)

\* The frame of a call that session s starts on transfer id.
NewCall(s, op, transferId, optMaxRetries) ==
  [NoCall EXCEPT !.op = op, !.transfer_id = transferId, !.optMaxRetries = optMaxRetries,
                 !.calls = call[s].calls + 1,
                 !.statusBefore = IF outgoingTransfers[s][transferId] = Nil THEN None
                                  ELSE outgoingTransfers[s][transferId].status,
                 !.faultsBefore = faults]

\* The call of session s has run from S0 with frame0 to its next wait or
\* to its end.
Ran(s, w, act) ==
  /\ Commit(w.S)
  /\ call' = [call EXCEPT ![s] = w.call]
  /\ net' = net (+) SetToBag(Delivered(w.S))
  /\ last' = [NoStep EXCEPT !.act = act, !.s = s, !.out = w.S.out]

\* The file_send tool: sendFile with a fresh transfer id.
SendFile(s, target, transferId, dataBuffer, optMaxRetries) ==
  /\ call[s].pc = "idle"
  /\ call[s].calls < MaxCalls
  /\ outgoingTransfers[s][transferId] = Nil
  /\ \E w \in {sendFile(Self(s), NewCall(s, "sendFile", transferId, optMaxRetries),
                        [transferId |-> transferId, dataBuffer |-> dataBuffer,
                         chunkBytes |-> NoInt, targetUuid |-> target], Now)} :
       Ran(s, w, "sendFile")
  /\ UNCHANGED faults

\* The file_resume tool: resumeOutgoingTransfer on a transfer of the session.
ResumeOutgoingTransfer(s, transferId, startSeq, optMaxRetries) ==
  /\ call[s].pc = "idle"
  /\ call[s].calls < MaxCalls
  /\ outgoingTransfers[s][transferId] # Nil
  /\ \E w \in {resumeOutgoingTransfer(Self(s),
                 [NewCall(s, "resumeOutgoingTransfer", transferId, optMaxRetries)
                    EXCEPT !.optStartSeq = startSeq], Now)} :
       Ran(s, w, "resumeOutgoingTransfer")
  /\ UNCHANGED faults

\* The wait of the call of session s times out.
TimedOut(s) ==
  /\ call[s].pc # "idle"
  /\ Awaited(Self(s), call[s]) = Nil
  /\ \E w \in {Continue(Self(s), [call[s] EXCEPT !.timeouts = @ + 1], Nil, Now)} :
       Ran(s, w, "timeout")

\* The wait times out when nothing is in flight any more.
Timeout(s) ==
  /\ net = EmptyBag
  /\ TimedOut(s)
  /\ UNCHANGED faults

\* The wait times out while envelopes are still in flight: they are late.
EarlyTimeout(s) ==
  /\ net # EmptyBag
  /\ faults < MaxFaults
  /\ TimedOut(s)
  /\ faults' = faults + 1

\* The calls of the sender.
Calls ==
  \/ \E dataBuffer \in Payloads, optMaxRetries \in RetryOptions :
       SendFile("a", "b", "t1", dataBuffer, optMaxRetries)
  \/ \E optMaxRetries \in RetryOptions :
       ResumeOutgoingTransfer("a", "t1", NoInt, optMaxRetries)

NextFile ==
  \/ Calls
  \/ \E m \in InFlight : DataReceived(m, Now)
  \/ Timeout("a")
  \/ EarlyTimeout("a")
  \/ \E m \in InFlight : Lose(m)
  \/ \E m \in InFlight : Duplicate(m, Now)
  \/ \E m \in InFlight : Tamper(m)

SpecFile == InitFile /\ [][NextFile]_vars

NextLoss ==
  \/ Calls
  \/ \E m \in InFlight : DataReceived(m, Now)
  \/ Timeout("a")
  \/ \E m \in InFlight : Drop(m, MaxLosses)

SpecLoss == InitFile /\ [][NextLoss]_vars

-----------------------------------------------------------------------------
(* SpecStore: the transfer of SpecFile with room for one completed transfer *)

StoreOptions(s) == [FileOptions(s) EXCEPT !.maxStoredFiles = 1]

InitStore == Established([s \in Sessions |-> StoreOptions(s)], Now)

SpecStore == InitStore /\ [][NextFile]_vars

-----------------------------------------------------------------------------
(* SpecChunk: the transfer of SpecLoss with chunks of two units, so that
   the last chunk of a payload may be shorter than the others *)

ChunkOptions(s) == [FileOptions(s) EXCEPT !.fileChunkBytes = 2]

InitChunk == Established([s \in Sessions |-> ChunkOptions(s)], Now)

SpecChunk == InitChunk /\ [][NextLoss]_vars

-----------------------------------------------------------------------------
(* SpecResume: file_resume with an explicit start_seq *)

MaxStartSeq == 3

\* The start_seq option of file_resume (the tool's schema: an integer >= 0).
StartSeqs == 0 .. MaxStartSeq

NextResume ==
  \/ \E dataBuffer \in Payloads : SendFile("a", "b", "t1", dataBuffer, NoInt)
  \/ \E startSeq \in StartSeqs : ResumeOutgoingTransfer("a", "t1", startSeq, NoInt)
  \/ \E m \in InFlight : DataReceived(m, Now)
  \/ Timeout("a")
  \/ \E m \in InFlight : Drop(m, MaxLosses)

SpecResume == InitFile /\ [][NextResume]_vars

-----------------------------------------------------------------------------
(* SpecStop: stop() on the receiving session of a spooled transfer *)

\* teardownSdk that also forgets the room state.
teardownSdkAll(S) ==
  IF ~S.lifecycle.sdk THEN S
  ELSE [S EXCEPT !.lifecycle.sdk = FALSE, !.lifecycle.connectedPeers = {},
                 !.lifecycle.channels = {}, !.roomState = [k \in StateKeys |-> Nil]]

\* teardownSdk: the listeners are removed and the SDK is disconnected.
teardownSdk(S) ==
  IF ~S.lifecycle.sdk THEN S
  ELSE [S EXCEPT !.lifecycle.sdk = FALSE, !.lifecycle.connectedPeers = {},
                 !.lifecycle.channels = {}]

RECURSIVE CleanupIncoming(_, _)
\* The first loop of cleanupAllTransferStorage over the transfer ids.
CleanupIncoming(S, ids) ==
  IF ids = {} THEN S
  ELSE LET id == CHOOSE x \in ids : TRUE
           cleaned == cleanupTransferStorage(S, S.incomingTransfers[id])
       IN CleanupIncoming(IF S.incomingTransfers[id] = Nil THEN S
                          ELSE [cleaned.S EXCEPT !.incomingTransfers[id] = cleaned.transfer],
                          ids \ {id})

\* cleanupAllTransferStorage: cleanupTransferStorage on every transfer that
\* has spool storage (the outgoing transfers here are held in memory).
cleanupAllTransferStorage(S) == CleanupIncoming(S, TransferIds)

stop(S) ==
  LET S1 == [S EXCEPT !.lifecycle.running = FALSE,
                      !.lifecycle.connecting = FALSE,
                      !.lifecycle.state = "stopped",
                      !.lifecycle.reconnectTimer = FALSE,
                      !.lifecycle.heartbeatTimer = FALSE]
  IN queueEvent(cleanupAllTransferStorage(teardownSdk(S1)), [type |-> "stopped"])

\* The disconnect tool, or a shutdown: stop() on session s. What is in
\* flight to s is not delivered any more, its listeners being removed.
Stop(s) ==
  /\ \E S \in {stop(Self(s))} :
       /\ Commit(S)
       /\ last' = [NoStep EXCEPT !.act = "stop", !.s = s]
  /\ net' = [m \in {x \in DOMAIN net : x.to # s} |-> net[m]]
  /\ UNCHANGED <<call, faults>>

\* The receiver spools every incoming transfer and both sessions queue up
\* to three events.
StopOptions(s) ==
  [FileOptions(s) EXCEPT !.fileSpoolThresholdBytes = 1, !.maxQueueSize = 3]

InitStop == Established([s \in Sessions |-> StopOptions(s)], Now)

NextStop ==
  \/ \E dataBuffer \in Payloads : SendFile("a", "b", "t1", dataBuffer, NoInt)
  \/ \E m \in InFlight : DataReceived(m, Now)
  \/ Timeout("a")
  \/ Stop("b")

SpecStop == InitStop /\ [][NextStop]_vars

-----------------------------------------------------------------------------
(* SpecSpool: a spooled incoming transfer is cancelled, evicted or stopped *)

\* The receiver spools every incoming transfer and keeps one completed one.
SpoolOptions(s, keep) ==
  [FileOptions(s) EXCEPT !.fileSpoolThresholdBytes = 1, !.maxStoredFiles = 1,
                         !.keepSpoolFiles = keep]

InitSpool ==
  \E keep \in BOOLEAN : Established([s \in Sessions |-> SpoolOptions(s, keep)], Now)

\* Session s has recorded a file.cancel on its protocol bus.
Cancelled(s) ==
  \E i \in DOMAIN protocolEvents[s] : protocolEvents[s][i].kind = "file.cancel"

\* The application of peer u gives up transfer transferId: its file.cancel
\* envelope goes on the data channel to session s.
Cancel(s, u, transferId) ==
  /\ outgoingTransfers[u][transferId] # Nil
  /\ ~Cancelled(s)
  /\ \A m \in InFlight : ~(isProtocolEnvelope(m.data) /\ m.data.kind = "file.cancel")
  /\ \E S \in {sendProtocol(Self(u), "file.cancel", [transfer_id |-> transferId],
                              s, TRUE, Now)} :
       /\ Commit(S)
       /\ net' = net (+) SetToBag(Delivered(S))
       /\ last' = [NoStep EXCEPT !.act = "cancel", !.s = u, !.out = S.out]
  /\ UNCHANGED <<call, faults>>

NextSpool ==
  \/ \E dataBuffer \in Payloads : SendFile("a", "b", "t1", dataBuffer, NoInt)
  \/ \E m \in InFlight : DataReceived(m, Now)
  \/ Timeout("a")
  \/ \E m \in InFlight : Duplicate(m, Now)
  \/ Cancel("b", "a", "t1")
  \/ Stop("b")

SpecSpool == InitSpool /\ [][NextSpool]_vars

-----------------------------------------------------------------------------
(* SpecQueue: application messages are queued as events and polled *)

MaxPosted == 4

\* The max_queue_size of the polled session.
QueueCaps == {1, 2}

\* The max_events of a poll: not given, 1, 2.
PollSizes == {NoInt, 1, 2}

QueueOptions(s, cap) == [PlainOptions(s) EXCEPT !.maxQueueSize = cap]

InitQueue == \E cap \in QueueCaps : Constructed([s \in Sessions |-> QueueOptions(s, cap)])

\* Peer u posts its next application message to session s: the messages
\* are numbered in the order they are posted.
PostData(s, u) ==
  /\ poll[s].posted < MaxPosted
  /\ lifecycle[s].sdk
  /\ \E data \in {[app |-> poll[s].posted + 1]} :
     \E r \in {dataReceived([Self(s) EXCEPT !.poll.posted = @ + 1],
                            [uuid |-> u, streamID |-> StreamIdOf(u), data |-> data], Now)} :
       /\ Commit(r.S)
       /\ net' = net (+) SetToBag(Delivered(r.S))
       /\ last' = [act |-> "dataReceived", s |-> s, from |-> u, data |-> data,
                   route |-> r.route, out |-> r.S.out]
  /\ UNCHANGED <<call, faults>>

\* The receive tool: pollEvents(maxEvents, waitMs) on session s, no other
\* poll of the session being pending.
PollEvents(s, maxEvents, waitMs) ==
  /\ poll[s].waiting = NoInt
  /\ \E S \in {pollEvents(Self(s), maxEvents, waitMs)} :
       /\ Commit(S)
       /\ last' = [NoStep EXCEPT !.act = "pollEvents", !.s = s]
  /\ UNCHANGED <<call, net, faults>>

\* The timer of the pending pollEvents of session s fires.
PollTimer(s) ==
  /\ poll[s].waiting # NoInt
  /\ \E S \in {SpliceEvents(Self(s), poll[s].waiting)} :
       /\ Commit(S)
       /\ last' = [NoStep EXCEPT !.act = "pollTimer", !.s = s]
  /\ UNCHANGED <<call, net, faults>>

NextQueue ==
  \/ PostData("a", "b")
  \/ \E maxEvents \in PollSizes, waitMs \in {0, 1} : PollEvents("a", maxEvents, waitMs)
  \/ PollTimer("a")

SpecQueue == InitQueue /\ [][NextQueue]_vars

-----------------------------------------------------------------------------
(* SpecClock: local sets of session a among patches and snapshots that name
   any actor and any clock *)

\* Every event of the session is kept in its queue.
ClockOptions(s) == [PlainOptions(s) EXCEPT !.maxQueueSize = 0]

InitClock == Constructed([s \in Sessions |-> ClockOptions(s)])

\* The clocks of the entries that the local sets of session s have
\* produced, in the order of the sets.
LocalSetClocks(s) ==
  LET sets == SelectSeq(eventQueue[s],
                        LAMBDA e : e.type = "state_updated" /\ e.source = "local")
  IN [i \in DOMAIN sets |-> sets[i].clock]

\* The state_set tool on session s, without broadcast.
SetLocal(s, key) ==
  /\ Len(LocalSetClocks(s)) < MaxSets
  /\ Commit(setLocalState(Self(s), key, "v1", FALSE, None, 0))
  /\ last' = [NoStep EXCEPT !.act = "setLocalState", !.s = s]
  /\ UNCHANGED <<call, net, faults>>

\* The clocks a peer may put in a patch or a snapshot.
PeerClocks == {1, 3, TwoTo53}

\* A state.patch of the outsider for key k1 under the name of any actor.
ForgedPatch(actor, clock) ==
  OutsiderEnvelope("state.patch", [key |-> "k1", value |-> "v1", actor |-> actor,
                                   clock |-> clock])

\* A state.snapshot of the outsider with no entry and an actor clock.
ForgedSnapshot(actor, clock) ==
  OutsiderEnvelope("state.snapshot",
                   [entries |-> <<>>,
                    actor_clock |-> [x \in StreamIds |-> IF x = actor THEN clock ELSE 0]])

NextClock ==
  \/ \E key \in StateKeys : SetLocal("a", key)
  \/ \E actor \in {"agent_a", "agent_x"}, clock \in PeerClocks :
       Inject("a", ForgedPatch(actor, clock))
  \/ \E actor \in {"agent_a", "agent_x"}, clock \in PeerClocks :
       Inject("a", ForgedSnapshot(actor, clock))

SpecClock == InitClock /\ [][NextClock]_vars

-----------------------------------------------------------------------------
(* SpecWait: pollEvents with a wait, under a clock *)

MaxTicks == 2

\* The wait_ms of a poll: not given, 0, short waits, and one above the cap.
WaitTimes == {NoInt, 0, 1, 2, 40000}

InitWait == Constructed([s \in Sessions |-> QueueOptions(s, 2)])

\* d ms pass while the pollEvents promise of session s is pending: one ms,
\* or all that is left on its timer. No time passes beyond the expiry of
\* the timer, whose callback runs then.
Advance(s, d) ==
  /\ poll[s].waiting # NoInt
  /\ d > 0
  /\ d <= poll[s].timer
  /\ d = 1 => poll[s].elapsed < MaxTicks
  /\ Commit([Self(s) EXCEPT !.poll.timer = @ - d, !.poll.elapsed = @ + d])
  /\ last' = [NoStep EXCEPT !.act = "advance", !.s = s]
  /\ UNCHANGED <<call, net, faults>>

\* The setTimeout callback of pollEvents runs when its delay has passed.
Expire(s) ==
  /\ poll[s].timer = 0
  /\ PollTimer(s)

NextWait ==
  \/ PostData("a", "b")
  \/ \E maxEvents \in PollSizes, waitMs \in WaitTimes : PollEvents("a", maxEvents, waitMs)
  \/ \E d \in {1, poll["a"].timer} : Advance("a", d)
  \/ Expire("a")

SpecWait == InitWait /\ [][NextWait]_vars

-----------------------------------------------------------------------------
(* SpecDispatch: the tool server dispatches the parsed messages *)

MaxMessages == 3

\* The wait_ms of a vdo_receive call.
WaitValues == {0, 1}

InitDispatch == Constructed([s \in Sessions |-> QueueOptions(s, 2)])

\* parser.on('message'): the dispatch of the message is appended to the one
\* chain of the loop, chain = chain.then(() => server.dispatchMessage(message)).
Message(message) ==
  /\ chain.parsed < MaxMessages
  /\ chain' = [chain EXCEPT !.queued = Append(@, message), !.parsed = @ + 1]
  /\ last' = [NoStep EXCEPT !.act = "message", !.s = message.session_id]
  /\ UNCHANGED <<config, peerState, sharedKeys, roomState, stateClock, stateActorClock,
                 incomingTransfers, outgoingTransfers, completedIncomingOrder,
                 completedOutgoingOrder, protocolEvents, protocolCursor, eventQueue,
                 lifecycle, disk, poll, call, net, faults>>

\* The then callback of the chain runs once the promise before it has
\* settled: no earlier dispatch is still running.
CanDispatch == chain.running = Nil /\ chain.queued # <<>>

\* toolReceive: waitMs = args.wait_ms === 0 ? 0 : toPositiveInt(args.wait_ms, 0, 30000).
toolReceive(S, args) == pollEvents(S, 50, args.wait_ms)

\* server.dispatchMessage(message) starts: callTool runs toolReceive up to
\* its await; the dispatch stays the running one while pollEvents waits.
Dispatch ==
  /\ CanDispatch
  /\ \E message \in {Head(chain.queued)} :
     \E S \in {toolReceive(Self(message.session_id), message)} :
       /\ CommitFields(S)
       /\ chain' = [chain EXCEPT !.queued = Tail(@),
                                 !.running = IF S.poll.waiting # NoInt THEN message ELSE Nil]
       /\ last' = [NoStep EXCEPT !.act = "dispatch", !.s = message.session_id]
  /\ UNCHANGED <<call, net, faults>>

\* The pollEvents promise the running dispatch awaits has resolved: the
\* dispatch returns its result and the chain moves on.
Settle ==
  /\ chain.running # Nil
  /\ poll[chain.running.session_id].waiting = NoInt
  /\ chain' = [chain EXCEPT !.running = Nil]
  /\ last' = [NoStep EXCEPT !.act = "settle", !.s = chain.running.session_id]
  /\ UNCHANGED <<config, peerState, sharedKeys, roomState, stateClock, stateActorClock,
                 incomingTransfers, outgoingTransfers, completedIncomingOrder,
                 completedOutgoingOrder, protocolEvents, protocolCursor, eventQueue,
                 lifecycle, disk, poll, call, net, faults>>

NextDispatch ==
  \/ \E s \in Sessions, w \in WaitValues :
       Message([tool |-> "vdo_receive", session_id |-> s, wait_ms |-> w])
  \/ Dispatch
  \/ Settle
  \/ PostData("a", "b")
  \/ PostData("b", "a")
  \/ \E s \in Sessions : PollTimer(s)

SpecDispatch == InitDispatch /\ [][NextDispatch]_vars

-----------------------------------------------------------------------------
(* SpecSend: the send tool while peers and data channels come and go *)

\* The peerConnected listener of attachListeners.
peerConnected(S, uuid, now) ==
  LET S1 == [S EXCEPT !.lifecycle.connectedPeers = @ \cup {uuid}]
      S2 == queueEvent(S1, [type |-> "peer_connected", uuid |-> uuid])
  IN sendSyncHello(touchPeer(S2, uuid, None), uuid, now)

\* The peerDisconnected listener of attachListeners.
peerDisconnected(S, uuid) ==
  LET S1 == [S EXCEPT !.lifecycle.connectedPeers = @ \ {uuid}]
      S2 == queueEvent(S1, [type |-> "peer_disconnected", uuid |-> uuid])
  IN IF S2.peerState[uuid] = Nil THEN S2
     ELSE [S2 EXCEPT !.peerState[uuid].connected = FALSE]

\* The dataChannelClose listener of attachListeners.
dataChannelClose(S, uuid) == queueEvent(S, [type |-> "data_channel_close", uuid |-> uuid])

\* A handler of session s has run and left S.
Handled(s, S, act) ==
  /\ Commit(S)
  /\ net' = net (+) SetToBag(Delivered(S))
  /\ last' = [NoStep EXCEPT !.act = act, !.s = s, !.out = S.out]
  /\ UNCHANGED <<call, faults>>

\* The transport of session s connects to peer u.
PeerConnected(s, u) ==
  /\ lifecycle[s].sdk
  /\ u \notin lifecycle[s].connectedPeers
  /\ BagCardinality(net) < MaxInFlight
  /\ Handled(s, peerConnected(Self(s), u, Now), "peerConnected")

\* The transport of session s loses peer u, and with it the data channel.
PeerDisconnected(s, u) ==
  /\ lifecycle[s].sdk
  /\ u \in lifecycle[s].connectedPeers
  /\ Handled(s, peerDisconnected([Self(s) EXCEPT !.lifecycle.channels = @ \ {u}], u),
             "peerDisconnected")

\* The data channel of session s to the connected peer u opens.
ChannelOpens(s, u) ==
  /\ lifecycle[s].sdk
  /\ u \in lifecycle[s].connectedPeers \ lifecycle[s].channels
  /\ BagCardinality(net) < MaxInFlight
  /\ Handled(s, dataChannelOpen([Self(s) EXCEPT !.lifecycle.channels = @ \cup {u}], u, Now),
             "dataChannelOpen")

\* The data channel of session s to peer u closes.
ChannelCloses(s, u) ==
  /\ lifecycle[s].sdk
  /\ u \in lifecycle[s].channels
  /\ Handled(s, dataChannelClose([Self(s) EXCEPT !.lifecycle.channels = @ \ {u}], u),
             "dataChannelClose")

\* The payload of the send tool.
Payload == [app |-> "text"]

\* The string targets of the send tool: none, a uuid, a stream id.
StringTargets == {None} \cup Uuids \cup StreamIds

\* The object targets of the send tool.
ObjectTargets == [uuid : {None} \cup Uuids, allowFallback : BOOLEAN]

\* What a send step leaves for the claims: the target, whether send
\* returned true, and what the transport was given.
SendStep(s, S, target) ==
  /\ Commit(S)
  /\ net' = net (+) SetToBag(Delivered(S))
  /\ last' = [act |-> "send", s |-> s, from |-> None, data |-> target,
              route |-> IF S.ok THEN "sent" ELSE "refused", out |-> S.out]
  /\ UNCHANGED <<call, faults>>

\* The send tool with no target or a string target.
Send(s, target) ==
  /\ BagCardinality(net) < MaxInFlight
  /\ SendStep(s, send(Self(s), Payload, target), [uuid |-> target, allowFallback |-> FALSE])

\* The send tool with an object target.
SendToObject(s, target) ==
  /\ BagCardinality(net) < MaxInFlight
  /\ SendStep(s, sendToObject(Self(s), Payload, target), target)

\* The session has connected and no peer has: nothing is connected yet.
Alone(s, options) ==
  [Fresh(s, options) EXCEPT !.lifecycle.connectedPeers = {}, !.lifecycle.channels = {}]

\* The lifecycle fields as the constructor leaves them: start() has not run.
Idle ==
  [Connected EXCEPT !.running = FALSE, !.state = "idle", !.sdk = FALSE,
                    !.heartbeatTimer = FALSE]

\* Session a is connected and alone; its peers b and x are remote members
\* of the room, whose side of the traffic is left out (session b is not
\* started).
InitSend ==
  Installed([s \in Sessions |->
               IF s = "a" THEN Alone(s, PlainOptions(s))
               ELSE [Fresh(s, PlainOptions(s)) EXCEPT !.lifecycle = Idle]])

NextSend ==
  \/ \E u \in Peers("a") : PeerConnected("a", u)
  \/ \E u \in Peers("a") : PeerDisconnected("a", u)
  \/ \E u \in Peers("a") : ChannelOpens("a", u)
  \/ \E u \in Peers("a") : ChannelCloses("a", u)
  \/ \E target \in StringTargets \ {"a", "agent_a"} : Send("a", target)
  \/ \E target \in ObjectTargets : SendToObject("a", target)
  \/ Inject("a", OutsiderHello(Nil))

SpecSend == InitSend /\ [][NextSend]_vars

-----------------------------------------------------------------------------
(* SpecReconnect: the transport of session a breaks and is rebuilt *)

MaxReconnects == 4

\* scheduleReconnect(reason): one timer at most, set to the current delay.
scheduleReconnect(S, reason) ==
  IF ~S.lifecycle.running \/ S.lifecycle.reconnectTimer THEN S
  ELSE LET delay == S.lifecycle.currentReconnectDelayMs
           S1 == [S EXCEPT !.lifecycle.state = "reconnecting"]
           S2 == queueEvent(S1, [type |-> "reconnect_scheduled", reason |-> reason,
                                 inMs |-> delay])
       IN [S2 EXCEPT !.lifecycle.reconnectTimer = TRUE]

\* connectSession up to its first wait on the transport: the old SDK is
\* torn down, a new one is made, its listeners are attached and connect()
\* is called. connectPc is the call of the SDK that connectSession awaits.
connectBegin(S) ==
  IF ~S.lifecycle.running \/ S.lifecycle.connecting THEN S
  ELSE LET S1 == [S EXCEPT !.lifecycle.connecting = TRUE,
                           !.lifecycle.state =
                              IF @ # "reconnecting" THEN "connecting" ELSE @]
       IN [teardownSdk(S1) EXCEPT !.lifecycle.sdk = TRUE, !.lifecycle.connectPc = "connect"]

\* The catch and finally blocks of connectSession.
connectCatch(S, now) ==
  LET S1 == scheduleReconnect(queueEvent(S, [type |-> "connect_error"]), "connect_error")
  IN [S1 EXCEPT !.lifecycle.connecting = FALSE, !.lifecycle.connectPc = "none"]

\* The try block of connectSession after announce has resolved, and finally.
connectReady(S, now) ==
  LET up == [S EXCEPT !.lifecycle.state = "connected",
                      !.lifecycle.currentReconnectDelayMs = S.config.reconnectDelayMs]
      S1 == sendSyncHello(queueEvent(up, [type |-> "ready"]), None, now)
  IN [S1 EXCEPT !.lifecycle.connecting = FALSE, !.lifecycle.connectPc = "none"]

\* connectSession resumes when the call it awaits settles: a rejection, or
\* the next call on an SDK that stop() has set to null meanwhile, throws
\* into the catch block; else the next of connect, joinRoom and announce is
\* called, and after announce the session is connected.
connectResume(S, resolves, now) ==
  IF ~resolves THEN connectCatch(S, now)
  ELSE IF S.lifecycle.connectPc = "announce" THEN connectReady(S, now)
  ELSE IF ~S.lifecycle.sdk THEN connectCatch(S, now)
  ELSE [S EXCEPT !.lifecycle.connectPc = IF @ = "connect" THEN "joinRoom" ELSE "announce"]

\* connectSession with no other handler running before it returns: connects
\* tells whether connect, joinRoom and announce all succeed or the first of
\* them throws.
connectSession(S, connects, now) ==
  IF ~S.lifecycle.running \/ S.lifecycle.connecting THEN S
  ELSE IF connects
    THEN connectResume(connectResume(connectResume(connectBegin(S), TRUE, now), TRUE, now),
                       TRUE, now)
  ELSE connectResume(connectBegin(S), FALSE, now)

\* The callback of the reconnect timer.
reconnectTimer(S, connects, now) ==
  connectSession([S EXCEPT !.lifecycle.reconnectTimer = FALSE,
                           !.lifecycle.reconnectCount = @ + 1,
                           !.lifecycle.currentReconnectDelayMs =
                              Min(@ * 2, S.config.maxReconnectDelayMs)],
                 connects, now)

\* The disconnected listener of attachListeners.
disconnected(S) ==
  scheduleReconnect(queueEvent([S EXCEPT !.lifecycle.state = "disconnected"],
                               [type |-> "disconnected"]),
                    "disconnected")

\* The connectionFailed listener of attachListeners.
connectionFailed(S) ==
  scheduleReconnect(queueEvent(S, [type |-> "connection_failed"]), "connection_failed")

\* The transport of session s reports that the signalling connection is lost.
Disconnected(s) ==
  /\ lifecycle[s].sdk
  /\ lifecycle[s].state = "connected"
  /\ Handled(s, disconnected(Self(s)), "disconnected")

\* The transport of session s reports that a connection has failed.
ConnectionFailed(s) ==
  /\ lifecycle[s].sdk
  /\ lifecycle[s].state = "connected"
  /\ Handled(s, connectionFailed(Self(s)), "connectionFailed")

\* The reconnect timer of session s fires. What is in flight to s is not
\* delivered any more, the listeners of the old SDK being removed.
ReconnectTimer(s, connects) ==
  /\ lifecycle[s].reconnectTimer
  /\ lifecycle[s].reconnectCount < MaxReconnects
  /\ \E S \in {reconnectTimer(Self(s), connects, Now)} :
       /\ Commit(S)
       /\ net' = [m \in {x \in DOMAIN net : x.to # s} |-> net[m]] (+) SetToBag(Delivered(S))
       /\ last' = [NoStep EXCEPT !.act = "reconnectTimer", !.s = s, !.out = S.out,
                                 !.route = IF connects THEN "connected" ELSE "connect_error"]
  /\ UNCHANGED <<call, faults>>

\* The initial and the largest reconnect delay of a session, as the connect
\* tool accepts them.
ReconnectDelays ==
  {[reconnect_ms |-> 1, max_reconnect_ms |-> 4],
   [reconnect_ms |-> 3, max_reconnect_ms |-> 4],
   [reconnect_ms |-> 4, max_reconnect_ms |-> 2]}

ReconnectOptions(s, d) ==
  [FileOptions(s) EXCEPT !.reconnectDelayMs = d.reconnect_ms,
                         !.maxReconnectDelayMs = d.max_reconnect_ms,
                         !.maxQueueSize = 2]

InitReconnect ==
  \E d \in {x \in ReconnectDelays : x.reconnect_ms = 1} :
    Established([s \in Sessions |-> ReconnectOptions(s, d)], Now)

NextReconnect ==
  \/ Disconnected("a")
  \/ ConnectionFailed("a")
  \/ \E connects \in BOOLEAN : ReconnectTimer("a", connects)
  \/ SetLocalState("a", "k1", "v1", FALSE, None)
  \/ SendFile("a", "b", "t1", <<1, 2>>, NoInt)
  \/ PeerConnected("a", "b")
  \/ \E m \in InFlight : DataReceived(m, Now)

SpecReconnect == InitReconnect /\ [][NextReconnect]_vars

\* SpecBackoff: the reconnect delays of session a, every event of the
\* session being kept in its queue.
BackoffOptions(s, d) == [ReconnectOptions(s, d) EXCEPT !.maxQueueSize = 0]

InitBackoff ==
  \E d \in ReconnectDelays : Established([s \in Sessions |-> BackoffOptions(s, d)], Now)

NextBackoff ==
  \/ Disconnected("a")
  \/ ConnectionFailed("a")
  \/ \E connects \in BOOLEAN : ReconnectTimer("a", connects)

SpecBackoff == InitBackoff /\ [][NextBackoff]_vars

-----------------------------------------------------------------------------
(* SpecStart: session a is started, loses its transport and is stopped while
   connectSession waits on the transport *)

startHeartbeat(S) ==
  IF ~S.lifecycle.running \/ S.lifecycle.heartbeatTimer THEN S
  ELSE [S EXCEPT !.lifecycle.heartbeatTimer = TRUE]

\* start() up to the first wait of connectSession.
start(S) ==
  IF S.lifecycle.running THEN S
  ELSE connectBegin([S EXCEPT !.lifecycle.running = TRUE,
                              !.lifecycle.state = "starting",
                              !.lifecycle.starting = TRUE])

\* The rest of start() once connectSession has returned.
startResume(S) ==
  IF S.lifecycle.starting /\ S.lifecycle.connectPc = "none"
    THEN [startHeartbeat(S) EXCEPT !.lifecycle.starting = FALSE]
  ELSE S

\* The session as the constructor leaves it.
Unstarted(s, options) ==
  [Fresh(s, options) EXCEPT
     !.lifecycle = [Idle EXCEPT !.currentReconnectDelayMs =
                                   BridgeSession(options).reconnectDelayMs]]

InitStart ==
  \E d \in {x \in ReconnectDelays : x.reconnect_ms = 1} :
    Installed([s \in Sessions |-> Unstarted(s, BackoffOptions(s, d))])

\* The connect tool has made session s: start().
Start(s) ==
  /\ lifecycle[s].state = "idle"
  /\ Handled(s, start(Self(s)), "start")

\* The call of the SDK that connectSession of session s awaits settles,
\* and connectSession runs to its next wait or to its end, and start()
\* after it.
ConnectSettles(s, resolves) ==
  /\ lifecycle[s].connectPc # "none"
  /\ Handled(s, startResume(connectResume(Self(s), resolves, Now)), "connectSettles")

\* The reconnect timer of session s fires: its callback runs up to the
\* first wait of connectSession.
ReconnectBegins(s) ==
  /\ lifecycle[s].reconnectTimer
  /\ lifecycle[s].reconnectCount < MaxReconnects
  /\ Handled(s, connectBegin([Self(s) EXCEPT
                                !.lifecycle.reconnectTimer = FALSE,
                                !.lifecycle.reconnectCount = @ + 1,
                                !.lifecycle.currentReconnectDelayMs =
                                   Min(@ * 2, config[s].maxReconnectDelayMs)]),
             "reconnectBegins")

NextStart ==
  \/ Start("a")
  \/ \E resolves \in BOOLEAN : ConnectSettles("a", resolves)
  \/ ReconnectBegins("a")
  \/ Disconnected("a")
  \/ ConnectionFailed("a")
  \/ (lifecycle["a"].state \notin {"idle", "stopped"} /\ Stop("a"))

SpecStart == InitStart /\ [][NextStart]_vars

-----------------------------------------------------------------------------
(* SpecCorrupt: one file.chunk is corrupted in flight *)

\* A buffer with its last byte altered.
Corrupted(buffer) == [buffer EXCEPT ![Len(buffer)] = 0]

\* The transport alters the data of file.chunk envelope m and leaves its
\* chunk_hash as it was; it does so once in a run.
Corrupt(m) ==
  /\ faults = 0
  /\ isProtocolEnvelope(m.data)
  /\ m.data.kind = "file.chunk"
  /\ net' = (net (-) SetToBag({m})) (+)
            SetToBag({[m EXCEPT !.data.payload.data_base64 =
                                  ToBase64(Corrupted(FromBase64(@)))]})
  /\ faults' = 1
  /\ last' = [NoStep EXCEPT !.act = "corrupt", !.s = m.to, !.from = m.uuid, !.data = m.data]
  /\ UNCHANGED <<config, peerState, sharedKeys, roomState, stateClock, stateActorClock,
                 incomingTransfers, outgoingTransfers, completedIncomingOrder,
                 completedOutgoingOrder, protocolEvents, protocolCursor, eventQueue,
                 lifecycle, disk, poll, chain, call>>

\* The two sessions either have completed the handshake, and hold a shared
\* key, or have not exchanged a hello yet, and send without a MAC.
InitCorrupt ==
  \/ InitFile
  \/ Installed([s \in Sessions |-> Fresh(s, FileOptions(s))])

NextCorrupt ==
  \/ \E dataBuffer \in Payloads, optMaxRetries \in RetryOptions \ {0} :
       SendFile("a", "b", "t1", dataBuffer, optMaxRetries)
  \/ \E m \in InFlight : DataReceived(m, Now)
  \/ Timeout("a")
  \/ \E m \in InFlight : Corrupt(m)

\* What is in flight is delivered and a wait that nothing will end times
\* out: the event loop runs every listener and timer that is due.
SpecCorrupt == InitCorrupt /\ [][NextCorrupt]_vars /\ WF_vars(NextCorrupt)

-----------------------------------------------------------------------------
(* Claims about the room state *)

\* entry >= other under the order (clock first, then actor lexicographically).
EntryAtLeast(entry, other) ==
  \/ entry.clock > other.clock
  \/ entry.clock = other.clock /\ StreamRank(entry.actor) >= StreamRank(other.actor)

\* C3: in every session and for every key, the entry a step stores is greater
\* than or equal to the entry it replaces under (clock, actor), so that the
\* stored entry is at least every entry stored before it: a stored entry is
\* never replaced by an entry it dominates, and never removed.
C3_StoredEntryNeverReplacedByDominated ==
  [][\A s \in Sessions, k \in StateKeys :
       roomState[s][k] # Nil =>
         /\ roomState'[s][k] # Nil
         /\ EntryAtLeast(roomState'[s][k], roomState[s][k])]_vars

\* The step delivers to session s a state.patch for key, written by an
\* overwrite, and the key limit of s cannot stand in the way.
OverwriteReceived(s, key) ==
  /\ last'.act = "dataReceived"
  /\ last'.s = s
  /\ isProtocolEnvelope(last'.data)
  /\ last'.data.kind = "state.patch"
  /\ last'.data.payload.key = key
  /\ last'.data.payload.value = "v2"
  /\ config[s].stateMaxKeys >= Cardinality(StateKeys)

\* C14: when a session overwrites a key after it has applied the current
\* entry written by another actor, a session that then receives the
\* state.patch of the overwrite stores the new value for the key.
C14_OverwriteReplacesOnReceipt ==
  [][\A s \in Sessions, key \in StateKeys :
       OverwriteReceived(s, key) =>
         /\ roomState'[s][key] # Nil
         /\ roomState'[s][key].value = last'.data.payload.value]_vars

\* C15: the number of entries in a session's state store never exceeds its
\* state_max_keys.
C15_StoreWithinStateMaxKeys ==
  \A s \in Sessions :
    Cardinality({key \in StateKeys : roomState[s][key] # Nil}) <= config[s].stateMaxKeys

-----------------------------------------------------------------------------
(* Claims about the session MAC *)

\* The step delivers a file.* or state.* envelope to a dataReceived listener.
NonSyncReceived ==
  /\ last'.act = "dataReceived"
  /\ isProtocolEnvelope(last'.data)
  /\ IsFileKind(last'.data.kind) \/ IsStateKind(last'.data.kind)

\* Envelope e from peer u is acceptable to session s: it carries the HMAC
\* under the key s holds for u, or no MAC while s does not require one.
MacAcceptable(s, u, e) ==
  LET hasMac == e.mac # Nil /\ e.mac # EmptyMac
  IN \/ /\ hasMac
        /\ sharedKeys[s][u] # Nil
        /\ e.mac = hmacSha256Hex(sharedKeys[s][u], signaturePayload(e))
     \/ ~hasMac /\ ~config[s].requireSessionMac

\* The step leaves the transfers and the room state of every session alone.
TransfersAndStateUnchanged ==
  UNCHANGED <<incomingTransfers, outgoingTransfers, roomState, stateClock>>

\* C4: a received file.* or state.* envelope is routed to its engine if and
\* only if it carries the HMAC under the shared key held for the sender, or
\* carries no MAC while require_session_mac is not set; otherwise it is
\* dropped, no transfer or state entry changes, and protocol_auth_failed is
\* the event emitted.
C4_NonSyncRoutedIffMacAcceptable ==
  [][NonSyncReceived =>
       LET s == last'.s
           acceptable == MacAcceptable(s, last'.from, last'.data)
           queue == eventQueue'[s]
       IN /\ last'.route \in {"file", "state"} <=> acceptable
          /\ ~acceptable =>
               /\ last'.route = "auth_failed"
               /\ TransfersAndStateUnchanged
               /\ last'.out = {}
               /\ Len(queue) > 0
               /\ queue[Len(queue)].type = "protocol_auth_failed"]_vars

\* A MAC-carrying state.patch from a peer whose key is held was altered in
\* flight and has been dropped at the MAC check.
C4_Witness ==
  /\ last.act = "dataReceived"
  /\ last.route = "auth_failed"
  /\ last.data.kind = "state.patch"
  /\ last.data.mac \notin {Nil, EmptyMac}
  /\ sharedKeys[last.s][last.from] # Nil

\* C5: every non-sync envelope that a step sends to a peer for which the
\* sending session holds a shared key carries the MAC under that key, be it
\* addressed to the peer or broadcast.
C5_NonSyncSentToKeyedPeerCarriesMac ==
  \A m \in last.out :
    (~IsSyncKind(m.data.kind) /\ sharedKeys[last.s][m.to] # Nil) =>
      m.data.mac = computeEnvelopeMac(m.data, sharedKeys[last.s][m.to])

-----------------------------------------------------------------------------
(* Claims about admission *)

\* The step delivers a sync.hello to a dataReceived listener.
HelloReceived ==
  /\ last'.act = "dataReceived"
  /\ isProtocolEnvelope(last'.data)
  /\ last'.data.kind = "sync.hello"

\* The step sent an envelope of the given kind to peer u.
SentKind(kind, u) == \E m \in last'.out : m.to = u /\ m.data.kind = kind

\* After the step session s holds peer u as rejected, with auth_ok false.
RejectedAfter(s, u) ==
  /\ peerState'[s][u] # Nil
  /\ peerState'[s][u].handshake_state = "rejected"
  /\ peerState'[s][u].auth_ok = FALSE

\* C6: with a non-empty allowlist, a sync.hello from a peer whose stream id
\* is not on it leaves the peer rejected with auth_ok false, and the hello
\* is not processed further: no sync.hello_ack is sent, the capabilities
\* held for the peer are what they were, and so is the shared key.
C6_HelloOffAllowlistRejected ==
  [][(/\ HelloReceived
      /\ config[last'.s].allowPeerStreamIDs # {}
      /\ StreamIdOf(last'.from) \notin config[last'.s].allowPeerStreamIDs) =>
       LET s == last'.s
           u == last'.from
       IN /\ RejectedAfter(s, u)
          /\ ~SentKind("sync.hello_ack", u)
          /\ peerState'[s][u].capabilities =
               (IF peerState[s][u] = Nil THEN Nil ELSE peerState[s][u].capabilities)
          /\ peerState'[s][u].shared_key_ready = FALSE
          /\ sharedKeys'[s][u] = Nil]_vars

\* The outsider's hello has reached a session whose allowlist does not name
\* it, and the session holds it as rejected.
C6_Witness ==
  /\ last.act = "dataReceived"
  /\ last.from = "x"
  /\ last.data \in {OutsiderHello(token) : token \in OutsiderTokens}
  /\ config[last.s].allowPeerStreamIDs # {}
  /\ "agent_x" \notin config[last.s].allowPeerStreamIDs
  /\ peerState[last.s]["x"].handshake_state = "rejected"

\* C28: when a sync.hello is rejected because the sender's stream id is not
\* on the allowlist, the rejecting session sends a sync.reject envelope to
\* that peer.
C28_AllowlistRejectionSendsSyncReject ==
  [][(/\ HelloReceived
      /\ config[last'.s].allowPeerStreamIDs # {}
      /\ StreamIdOf(last'.from) \notin config[last'.s].allowPeerStreamIDs
      /\ RejectedAfter(last'.s, last'.from))
       => SentKind("sync.reject", last'.from)]_vars

\* C7: from a peer that a session holds as rejected, a file.*, state.* or
\* application-data message changes no transfer and no state entry and is
\* not surfaced as data_received.
C7_RejectedPeerTrafficRefused ==
  [][(/\ last'.act = "dataReceived"
      /\ peerState[last'.s][last'.from] # Nil
      /\ peerState[last'.s][last'.from].handshake_state = "rejected"
      /\ \/ ~isProtocolEnvelope(last'.data)
         \/ IsFileKind(last'.data.kind)
         \/ IsStateKind(last'.data.kind)) =>
       /\ TransfersAndStateUnchanged
       /\ last'.route \notin {"app", "file", "state"}]_vars

\* The join token of a hello fails validation at session s for a peer whose
\* transport stream id is streamID, at time now: there is none, or a secret
\* is configured and the token is not signed with it, names another room or
\* another stream id, or has expired.
TokenFails(s, token, streamID, now) ==
  \/ token = Nil
  \/ /\ config[s].joinTokenSecret # None
     /\ \/ token.sig # hmacSha256Hex(config[s].joinTokenSecret, token.body)
        \/ token.body.room # Room
        \/ token.body.stream_id # streamID
        \/ now > token.body.exp

-----------------------------------------------------------------------------
(* Claims about file transfers *)

\* The payload that the receiver has reassembled for incoming transfer r.
ReceivedPayload(r) ==
  IF r.spooled THEN r.spool_file ELSE Concat(r.chunks, 0, r.total_chunks)

\* C1: whenever an outgoing transfer is completed on the sender, the
\* receiving session holds an incoming transfer with the same id whose
\* reassembled payload has the SHA-256 of the sender's file_hash and whose
\* received_bytes is the sender's total_bytes.
C1_CompletedOnSenderIsReceivedIntact ==
  \A s \in Sessions, id \in TransferIds :
    LET transfer == outgoingTransfers[s][id]
    IN (transfer # Nil /\ transfer.status = "completed") =>
         LET incoming == incomingTransfers[transfer.target_uuid][id]
         IN /\ incoming # Nil
            /\ sha256Hex(ReceivedPayload(incoming)) = transfer.file_hash
            /\ incoming.received_bytes = transfer.total_bytes

\* The file.chunk envelopes that the step sent from session s.
ChunksSent(s) ==
  {m \in last'.out : last'.s = s /\ m.data.kind = "file.chunk"}

\* C2: a call that has sent the chunk for seq and not yet had the response
\* sends the chunk for another sequence number only in the step in which it
\* receives the file.ack for seq, a file.nack, or, after a timeout, the
\* resume report: at most one chunk is outstanding unacknowledged.
C2_OneUnacknowledgedChunk ==
  [][\A s \in Sessions :
       (/\ call[s].pc \in {"ack", "loop_resume"}
        /\ \E m \in ChunksSent(s) : m.data.payload.seq # call[s].seq) =>
         /\ last'.act = "dataReceived"
         /\ last'.from = outgoingTransfers[s][call[s].transfer_id].target_uuid
         /\ \/ /\ last'.data.kind = "file.ack"
               /\ last'.data.payload.seq = call[s].seq
            \/ last'.data.kind = "file.nack"
            \/ /\ last'.data.kind = "file.resume_state"
               /\ call[s].pc = "loop_resume"]_vars

\* The retry bound that the caller configured for the call of session s:
\* the max_retries option, or the session's file_max_retries without it.
ConfiguredMaxRetries(s) ==
  IF call[s].optMaxRetries # NoInt THEN call[s].optMaxRetries
  ELSE config[s].fileMaxRetries

\* C9: within one sendFile or resume call the failed attempts charged to
\* any one sequence number are at most max_retries + 1, for every
\* configured max_retries >= 0.
C9_ChargedWithinConfiguredBound ==
  \A s \in Sessions : \A seq \in DOMAIN call[s].charged :
    call[s].charged[seq] <= ConfiguredMaxRetries(s) + 1

\* C10: a resume of a transfer that failed through lost envelopes, during
\* which no envelope is lost and no wait times out, ends with the transfer
\* completed on the sender and the receiver's payload equal to the bytes
\* sent, whatever max_retries it is given.
C10_ResumeAfterLossCompletes ==
  [][\A s \in Sessions :
       (/\ call[s].op = "resumeOutgoingTransfer"
        /\ call[s].statusBefore = "failed"
        /\ call[s].pc # "idle"
        /\ call'[s].pc = "idle"
        /\ call'[s].timeouts = 0
        /\ faults' = call[s].faultsBefore) =>
         LET transfer == outgoingTransfers'[s][call[s].transfer_id]
             incoming == incomingTransfers'[transfer.target_uuid][call[s].transfer_id]
         IN /\ call'[s].outcome = "completed"
            /\ transfer.status = "completed"
            /\ incoming # Nil
            /\ ReceivedPayload(incoming) = Concat(transfer.chunks, 0, transfer.total_chunks)]_vars

-----------------------------------------------------------------------------
(* Claims about resume and the offer *)

\* C11: when resumeOutgoingTransfer is called with an explicit start_seq s,
\* 0 <= s <= total_chunks, the first file.chunk that call sends has seq = s,
\* and the call sends no chunk when s = total_chunks.
C11_ResumeBeginsAtStartSeq ==
  LET frame == call["a"]
  IN (/\ frame.op = "resumeOutgoingTransfer"
      /\ frame.optStartSeq # NoInt
      /\ outgoingTransfers["a"][frame.transfer_id] # Nil
      /\ frame.optStartSeq <= outgoingTransfers["a"][frame.transfer_id].total_chunks
      /\ frame.firstChunk # NoInt)
     => /\ frame.firstChunk = frame.optStartSeq
        /\ frame.optStartSeq < outgoingTransfers["a"][frame.transfer_id].total_chunks

\* C12: a wait for file.accept that times out leaves the outgoing transfer
\* failed, and the call has sent no file.chunk for it.
C12_AcceptTimeoutFailsTransfer ==
  [][(/\ call["a"].pc = "accept"
      /\ last'.act = "timeout"
      /\ last'.s = "a")
     => /\ outgoingTransfers'["a"][call["a"].transfer_id].status = "failed"
        /\ call'["a"].firstChunk = NoInt]_vars

\* The corrupted chunk is never stored: what the receiver holds for a
\* sequence number of the transfer is what the sender holds for it.
StoredChunksGenuine ==
  LET transfer == outgoingTransfers["a"]["t1"]
      incoming == incomingTransfers["b"]["t1"]
  IN (transfer # Nil /\ incoming # Nil) =>
       \A seq \in incoming.received_chunks : incoming.chunks[seq] = transfer.chunks[seq]

\* The call has ended with the transfer completed after a retry, and the
\* receiver's payload is the sender's.
CompletedAfterRetry ==
  LET transfer == outgoingTransfers["a"]["t1"]
      incoming == incomingTransfers["b"]["t1"]
  IN /\ call["a"].pc = "idle"
     /\ call["a"].outcome = "completed"
     /\ transfer # Nil /\ incoming # Nil
     /\ transfer.status = "completed"
     /\ transfer.retries_total >= 1
     /\ ReceivedPayload(incoming) = Concat(transfer.chunks, 0, transfer.total_chunks)

\* C13: when exactly one file.chunk is corrupted in flight (data altered,
\* chunk_hash unchanged) and max_retries >= 1, the receiver does not store
\* the corrupted chunk, the sender retransmits, and the transfer ends
\* completed with retries_total >= 1 and the receiver's payload equal to the
\* original bytes.
C13_OneCorruptChunkIsRetriedAndCompletes ==
  /\ [](StoredChunksGenuine)
  /\ []((faults = 1 /\ call["a"].pc = "idle") => CompletedAfterRetry)
  /\ ((faults = 1) ~> CompletedAfterRetry)

C13_Witness ==
  /\ faults = 1
  /\ last.act = "dataReceived"
  /\ CompletedAfterRetry

-----------------------------------------------------------------------------
(* Claims about the receiving side *)

\* The step hands an envelope of the given kind for transfer id to the
\* handleFileMessage of session s.
FileReceived(s, kind, id) ==
  /\ last'.act = "dataReceived"
  /\ last'.s = s
  /\ last'.route = "file"
  /\ last'.data.kind = kind
  /\ last'.data.payload.transfer_id = id

\* C16: when a file.complete does not finalize the incoming transfer, the
\* receiver replies file.nack and the transfer stays open: its status is
\* still receiving.
C16_FailedFinalizationStaysOpen ==
  [][\A s \in Sessions, id \in TransferIds :
       (/\ FileReceived(s, "file.complete", id)
        /\ incomingTransfers[s][id] # Nil
        /\ incomingTransfers[s][id].status = "receiving"
        /\ incomingTransfers'[s][id] # Nil
        /\ incomingTransfers'[s][id].status # "completed")
       => /\ \E m \in last'.out : m.data.kind = "file.nack"
          /\ incomingTransfers'[s][id].status = "receiving"]_vars

\* C17: a transfer that is removed from a session's store was completed,
\* and a transfer that a step has just completed (the receiver sends its
\* file.complete_ack, the sender's call returns completed) is still stored
\* after the step, for max_stored_files >= 1.
C17_EvictionKeepsJustCompleted ==
  [][\A s \in Sessions, id \in TransferIds :
       /\ (incomingTransfers[s][id] # Nil /\ incomingTransfers'[s][id] = Nil)
            => incomingTransfers[s][id].status = "completed"
       /\ (outgoingTransfers[s][id] # Nil /\ outgoingTransfers'[s][id] = Nil)
            => outgoingTransfers[s][id].status = "completed"
       /\ (/\ FileReceived(s, "file.complete", id)
           /\ \E m \in last'.out : m.data.kind = "file.complete_ack")
            => /\ incomingTransfers'[s][id] # Nil
               /\ incomingTransfers'[s][id].status = "completed"
       /\ (/\ call[s].pc # "idle"
           /\ call[s].transfer_id = id
           /\ call'[s].pc = "idle"
           /\ call'[s].outcome = "completed")
            => /\ outgoingTransfers'[s][id] # Nil
               /\ outgoingTransfers'[s][id].status = "completed"]_vars

\* C18: a file.chunk for a sequence number that the receiver has stored
\* already leaves the transfer as it is: the received sequence numbers,
\* received_bytes, the stored chunk data and the status are unchanged.
C18_DuplicateChunkChangesNothing ==
  [][\A s \in Sessions, id \in TransferIds :
       (/\ FileReceived(s, "file.chunk", id)
        /\ incomingTransfers[s][id] # Nil
        /\ Field(last'.data.payload, "seq", NoInt) \in incomingTransfers[s][id].received_chunks)
       => /\ incomingTransfers'[s][id] # Nil
          /\ incomingTransfers'[s][id].received_chunks = incomingTransfers[s][id].received_chunks
          /\ incomingTransfers'[s][id].received_bytes = incomingTransfers[s][id].received_bytes
          /\ incomingTransfers'[s][id].chunks = incomingTransfers[s][id].chunks
          /\ incomingTransfers'[s][id].spool_file = incomingTransfers[s][id].spool_file
          /\ incomingTransfers'[s][id].status = incomingTransfers[s][id].status]_vars

\* C19: for every incoming transfer, every stored sequence number lies in
\* 0 .. total_chunks - 1 and the chunk stored for sequence number i has the
\* declared length min(chunk_bytes, total_bytes - i * chunk_bytes).
C19_StoredChunksInRangeWithDeclaredLength ==
  \A s \in Sessions, id \in TransferIds :
    LET incoming == incomingTransfers[s][id]
    IN incoming # Nil =>
         \A i \in incoming.received_chunks :
           /\ i \in 0 .. (incoming.total_chunks - 1)
           /\ ~incoming.spooled =>
                Len(incoming.chunks[i]) =
                  Min(incoming.chunk_bytes, incoming.total_bytes - i * incoming.chunk_bytes)

\* C34: every file.chunk envelope the sender transmits carries, for its
\* stated seq i, the bytes of chunk i and chunk_hashes[i], on every path
\* through the transmit loop: first send, retransmission, and after a
\* file.nack or a resume report has changed the position.
C34_ChunkEnvelopeMatchesSeq ==
  [][\A s \in Sessions : \A m \in ChunksSent(s) :
       LET transfer == outgoingTransfers'[s][m.data.payload.transfer_id]
           i == m.data.payload.seq
       IN /\ i \in 0 .. (transfer.total_chunks - 1)
          /\ m.data.payload.data_base64 = ToBase64(getOutgoingChunk(transfer, i))
          /\ m.data.payload.chunk_hash = transfer.chunk_hashes[i]]_vars

\* The number of times transfer id stands in the completed list of
\* session s.
TimesCompleted(s, id) ==
  Len(SelectSeq(completedIncomingOrder[s], LAMBDA x : x = id))

\* The number of file_received events for transfer id in the queue of
\* session s.
TimesReceived(s, id) ==
  Len(SelectSeq(eventQueue[s],
                LAMBDA e : e.type = "file_received" /\ e.transfer_id = id))

\* C36: for each incoming transfer id finalization happens at most once:
\* file_received is emitted at most once and the id is appended to the
\* completed list at most once, however many file.complete or chunk
\* messages arrive after the transfer has completed.
C36_FinalizedAtMostOnce ==
  \A s \in Sessions, id \in TransferIds :
    /\ TimesCompleted(s, id) <= 1
    /\ TimesReceived(s, id) <= 1

\* C37: once an outgoing transfer's status is completed or failed, it is
\* changed only by an explicit resume call (the call itself or a step of
\* the call while it runs), never by a late or duplicated protocol message
\* from the peer.
C37_TerminalStatusKept ==
  [][\A s \in Sessions, id \in TransferIds :
       (/\ outgoingTransfers[s][id] # Nil
        /\ outgoingTransfers[s][id].status \in {"completed", "failed"}
        /\ outgoingTransfers'[s][id] # Nil
        /\ outgoingTransfers'[s][id].status # outgoingTransfers[s][id].status)
       => \/ last'.act = "resumeOutgoingTransfer"
          \/ call[s].pc # "idle"]_vars

-----------------------------------------------------------------------------
(* SpecAllow: an allowlist is set and the outsider's stream id is not always known *)

\* The outsider's data arrives at session s in an event that carries no
\* stream id (detail.streamID || null).
InjectBare(s, data) ==
  /\ Heard(s, "x") < MaxEvents
  /\ lifecycle[s].sdk
  /\ \E r \in {dataReceived(Self(s), [uuid |-> "x", streamID |-> None, data |-> data], Now)} :
     /\ Commit(r.S)
     /\ net' = net (+) SetToBag(Delivered(r.S))
     /\ last' = [act |-> "dataReceivedBare", s |-> s, from |-> "x", data |-> data,
                 route |-> r.route, out |-> r.S.out]
     /\ UNCHANGED <<call, faults>>

InitAllow ==
  \E v \in {w \in SyncVariants : w.allow # {}} :
     Constructed([s \in Sessions |-> SyncOptions(s, v)])

NextAllow ==
  \/ DataChannelOpen("a", "b")
  \/ \E m \in InFlight : DataReceived(m, Now)
  \/ \E data \in OutsiderData : Inject("a", data)
  \/ \E data \in OutsiderData : InjectBare("a", data)

SpecAllow == InitAllow /\ [][NextAllow]_vars

\* C38: with a non-empty allowlist a sync.hello is admitted only from a
\* peer whose stream id is known and on the allowlist: a hello that arrives
\* with no stream id attached does not bring the peer to hello_received or
\* ready, and no sync.hello_ack is sent to it.
C38_BareHelloNotAdmitted ==
  [][(/\ last'.act = "dataReceivedBare"
      /\ isProtocolEnvelope(last'.data)
      /\ last'.data.kind = "sync.hello"
      /\ config[last'.s].allowPeerStreamIDs # {}) =>
       /\ peerState'[last'.s][last'.from].handshake_state \notin {"hello_received", "ready"}
       /\ ~SentKind("sync.hello_ack", last'.from)]_vars

-----------------------------------------------------------------------------
(* SpecHandshake: two sessions shake hands and re-announce with the heartbeat *)

MaxBeats == 4

\* The sync.hello is announced again every fourth heartbeat.
SyncHelloTicks == 4

\* sendHeartbeat(explicit): the keepalive and the sync.heartbeat go to every
\* peer when a channel is open, and every fourth tick the sync.hello is
\* announced again.
sendHeartbeat(S, explicit, now) ==
  IF ~S.lifecycle.sdk THEN S
  ELSE
    LET hasPeers == S.lifecycle.connectedPeers # {}
        hasOpenChannels == hasOpenDataChannel(S, None)
        keepalive == [type |-> "bridge.keepalive", streamID |-> S.config.streamID]
        sent == hasPeers /\ hasOpenChannels
        S1 == IF sent
                THEN [S EXCEPT !.out = S.out \cup
                        {[to |-> u, uuid |-> S.id, streamID |-> S.config.streamID,
                          data |-> keepalive] : u \in S.lifecycle.connectedPeers}]
                ELSE S
        S2 == IF sent
                THEN sendProtocol(S1, "sync.heartbeat",
                                  [room |-> Room, stream_id |-> S.config.streamID],
                                  None, FALSE, now)
                ELSE S1
        S3 == [S2 EXCEPT !.lifecycle.syncTick = S.lifecycle.syncTick + 1]
        S4 == IF S3.lifecycle.syncTick % SyncHelloTicks = 0 /\ hasOpenChannels
                THEN sendSyncHello(S3, None, now) ELSE S3
    IN IF explicit THEN queueEvent(S4, [type |-> "heartbeat_sent", ok |-> sent]) ELSE S4

\* The interval timer of startHeartbeat fires on session s; the interval is
\* long against the time of a delivery, so nothing is in flight then.
Heartbeat(s) ==
  /\ lifecycle[s].heartbeatTimer
  /\ lifecycle[s].syncTick < MaxBeats
  /\ net = EmptyBag
  /\ \E S \in {sendHeartbeat(Self(s), FALSE, Now)} :
     /\ Commit(S)
     /\ net' = net (+) SetToBag(Delivered(S))
     /\ last' = [NoStep EXCEPT !.act = "sendHeartbeat", !.s = s, !.out = S.out]
     /\ UNCHANGED <<call, faults>>

\* Each session has ticked three heartbeats alone in the room (syncTick
\* counts them with or without peers) when the other arrives.
InitHandshake ==
  Installed([s \in Sessions |->
               [Fresh(s, PlainOptions(s)) EXCEPT !.lifecycle.syncTick = SyncHelloTicks - 1]])

Delivery == \E m \in InFlight : DataReceived(m, Now)

\* ENABLED <<Delivery>>_vars, from the guard of DataReceived: a delivery
\* takes its envelope out of the transport, so it always changes vars.
DeliveryEnabled == \E m \in InFlight : lifecycle[m.to].sdk

\* WF_vars(Delivery) with ENABLED written out.
DeliveryFair == []<>(~DeliveryEnabled) \/ []<><<Delivery>>_vars

\* Each session holds the other at handshake_state ready.
BothReady ==
  \A s \in Sessions : \A u \in Sessions \ {s} :
     peerState[s][u] # Nil /\ peerState[s][u].handshake_state = "ready"

\* The heartbeat of session s ticks after the handshake has settled, the
\* other session's timer being out of phase.
Reannounce(s) ==
  /\ BothReady
  /\ \A u \in Sessions \ {s} : lifecycle[u].syncTick < SyncHelloTicks
  /\ Heartbeat(s)

NextHandshake ==
  \/ DataChannelOpen("a", "b")
  \/ DataChannelOpen("b", "a")
  \/ Delivery
  \/ Reannounce("a")
  \/ Reannounce("b")

\* Each data channel opens and every envelope in flight is delivered.
SpecHandshake ==
  /\ InitHandshake
  /\ [][NextHandshake]_vars
  /\ WF_vars(DataChannelOpen("a", "b"))
  /\ WF_vars(DataChannelOpen("b", "a"))
  /\ DeliveryFair

-----------------------------------------------------------------------------
(* SpecBus: the protocol bus of session a and one wait on it *)

MaxBus == 3

\* What the bus may record: the awaited reply, an event of another kind and
\* the awaited kind from another peer.
BusEvents ==
  { ProtocolEvent("file.resume_state", "b", "t1", [next_seq |-> 0]),
    ProtocolEvent("file.ack", "b", "t1", [next_seq |-> 0]),
    ProtocolEvent("file.resume_state", "x", "t1", [next_seq |-> 0]) }

\* The predicate requestResumeState waits with, for transfer t1 sent to b.
IsResumeReply(event) ==
  /\ event.kind = "file.resume_state"
  /\ event.transfer_id = "t1"
  /\ event.from_uuid = "b"

\* The events on the bus of S that the predicate accepts.
ResumeReplies(S) ==
  {e \in {S.protocolEvents[i] : i \in DOMAIN S.protocolEvents} : IsResumeReply(e)}

\* waitForProtocolEvent registering its listener without a look at the bus.
waitForProtocolEventListening(S, frame, predicate, minCursor) ==
  [frame EXCEPT !.pc = "waiting", !.cursor = minCursor]

\* waitForProtocolEvent(predicate, timeoutMs, minCursor): an event already
\* on the bus resolves the wait at once, otherwise the listener and the
\* timer are set.
waitForProtocolEvent(S, frame, predicate, minCursor) ==
  LET existing == findProtocolEvent(S, predicate, minCursor)
  IN IF existing # Nil
       THEN [frame EXCEPT !.pc = "resolved", !.cursor = minCursor, !.resolved = existing]
       ELSE [frame EXCEPT !.pc = "waiting", !.cursor = minCursor]

\* The onProtocol listener of a registered wait.
onProtocol(frame, event) ==
  IF event.cursor <= frame.cursor THEN frame
  ELSE IF ~IsResumeReply(event) THEN frame
  ELSE [frame EXCEPT !.pc = "resolved", !.resolved = event]

\* const cursor = this.protocolCursor: the caller captures the cursor
\* before it sends.
Capture(s) ==
  /\ call[s].pc \in {"idle", "resolved"}
  /\ call[s].calls < MaxCalls
  /\ call' = [call EXCEPT ![s] = [NoCall EXCEPT !.pc = "captured",
                                                !.cursor = protocolCursor[s],
                                                !.calls = call[s].calls + 1]]
  /\ Commit(Self(s))
  /\ last' = [NoStep EXCEPT !.act = "capture", !.s = s]
  /\ UNCHANGED <<net, faults>>

\* recordProtocolEvent(event): the event is stamped, pushed and emitted to
\* the listener of a registered wait.
RecordProtocolEvent(s, event) ==
  /\ protocolCursor[s] < MaxBus
  /\ \E S \in {recordProtocolEvent(Self(s), event)} :
     /\ Commit(S)
     /\ call' = [call EXCEPT ![s] =
                   IF call[s].pc = "waiting"
                     THEN onProtocol(call[s], S.protocolEvents[Len(S.protocolEvents)])
                     ELSE call[s]]
  /\ last' = [NoStep EXCEPT !.act = "recordProtocolEvent", !.s = s, !.data = event]
  /\ UNCHANGED <<net, faults>>

\* The caller, having sent, calls waitForProtocolEvent with the cursor it
\* captured.
WaitFor(s) ==
  /\ call[s].pc = "captured"
  /\ call' = [call EXCEPT ![s] =
                waitForProtocolEvent(Self(s), call[s], ResumeReplies(Self(s)), call[s].cursor)]
  /\ Commit(Self(s))
  /\ last' = [NoStep EXCEPT !.act = "waitForProtocolEvent", !.s = s]
  /\ UNCHANGED <<net, faults>>

\* The timer of a registered wait fires: the listener is removed and the
\* wait resolves with null.
WaitExpires(s) ==
  /\ call[s].pc = "waiting"
  /\ call' = [call EXCEPT ![s] = [call[s] EXCEPT !.pc = "resolved", !.resolved = Nil]]
  /\ Commit(Self(s))
  /\ last' = [NoStep EXCEPT !.act = "waitTimeout", !.s = s]
  /\ UNCHANGED <<net, faults>>

InitBus == Constructed([s \in Sessions |-> PlainOptions(s)])

NextBus ==
  \/ Capture("a")
  \/ \E event \in BusEvents : RecordProtocolEvent("a", event)
  \/ WaitFor("a")
  \/ WaitExpires("a")

SpecBus == InitBus /\ [][NextBus]_vars

\* The replies on the bus of session s recorded after the cursor its wait
\* captured.
RepliesAfterCursor(s) ==
  {e \in {protocolEvents[s][i] : i \in DOMAIN protocolEvents[s]} :
     e.cursor > call[s].cursor /\ IsResumeReply(e)}

\* C40: a wait that captured the cursor before sending returns a matching
\* envelope recorded after that cursor even if the envelope arrived before
\* the wait was registered: a wait is never left registered while a
\* matching reply after its cursor is on the bus, and a wait that resolves
\* at its call resolves with the first such reply.
C40_EarlyReplyNotMissed ==
  \A s \in Sessions :
     /\ call[s].pc = "waiting" => RepliesAfterCursor(s) = {}
     /\ (call[s].pc = "resolved" /\ call[s].resolved # Nil) =>
          /\ call[s].resolved \in RepliesAfterCursor(s)
          /\ \A e \in RepliesAfterCursor(s) : e.cursor >= call[s].resolved.cursor

\* A reply arrived between the capture and the call of the wait, an older
\* reply lies before the cursor, and the wait resolved at once with the
\* newer one.
C40_Witness ==
  /\ last.act = "waitForProtocolEvent"
  /\ call["a"].pc = "resolved"
  /\ call["a"].resolved # Nil
  /\ call["a"].resolved.cursor > call["a"].cursor
  /\ \E i \in DOMAIN protocolEvents["a"] :
        /\ IsResumeReply(protocolEvents["a"][i])
        /\ protocolEvents["a"][i].cursor <= call["a"].cursor

-----------------------------------------------------------------------------
(* Claims about spool storage *)

\* The spool storage of transfer record r is released on the disk of
\* session s after the step: its descriptor is closed and, unless
\* keep_spool_files is set, its file is gone.
Released(s, r) ==
  /\ r.spool_fd \notin disk'[s].open
  /\ (r.spool_path # None /\ ~config[s].keepSpoolFiles) => r.spool_path \notin disk'[s].files

\* C21: when a session stops, when an incoming transfer is evicted and when
\* an incoming transfer is cancelled, the transfer's spool descriptor is
\* closed and, unless keep_spool_files is set, its spool file is removed;
\* after stop() no transfer of the session holds an open descriptor.
C21_SpoolReleasedOnStopEvictCancel ==
  [][\A s \in Sessions, id \in TransferIds :
       LET r == incomingTransfers[s][id]
           stopped == last'.act = "stop" /\ last'.s = s
           evicted == incomingTransfers'[s][id] = Nil
           cancelled == FileReceived(s, "file.cancel", id)
       IN /\ (r # Nil /\ (stopped \/ evicted \/ cancelled)) => Released(s, r)
          /\ (r # Nil /\ cancelled) => incomingTransfers'[s][id].spool_fd = NoInt
          /\ stopped => /\ disk'[s].open = {}
                        /\ \A other \in TransferIds :
                             incomingTransfers'[s][other] # Nil
                               => incomingTransfers'[s][other].spool_fd = NoInt]_vars

\* Session b has stopped while its spooled transfer was still being
\* received: the file had been created and nothing of it is left.
C21_Witness ==
  /\ last.act = "stop" /\ last.s = "b"
  /\ incomingTransfers["b"]["t1"] # Nil
  /\ incomingTransfers["b"]["t1"].spooled
  /\ incomingTransfers["b"]["t1"].status = "receiving"
  /\ incomingTransfers["b"]["t1"].received_chunks # {}
  /\ disk["b"].created = 1
  /\ disk["b"].open = {}
  /\ disk["b"].files = {}

\* C22: a spooled incoming transfer never holds chunk data in its in-memory
\* chunk array: every chunk accepted for it is written to its spool file.
C22_SpooledTransferHoldsNoChunks ==
  \A s \in Sessions, id \in TransferIds :
    LET incoming == incomingTransfers[s][id]
    IN (incoming # Nil /\ incoming.spooled) =>
         \A i \in 0 .. (incoming.total_chunks - 1) : incoming.chunks[i] = <<>>

-----------------------------------------------------------------------------
(* Claims about send *)

\* The peer a target names: the peer with that uuid or that stream id, or
\* None when the target names no peer.
Named(target) ==
  IF target.uuid \in Uuids THEN target.uuid
  ELSE IF \E u \in Uuids : StreamIdOf(u) = target.uuid
    THEN CHOOSE u \in Uuids : StreamIdOf(u) = target.uuid
  ELSE None

\* The step is a send of session s without the fallback flag.
PlainSend(s) ==
  /\ last'.act = "send"
  /\ last'.s = s
  /\ ~last'.data.allowFallback

\* Before the step session s has an open data channel to the peer the
\* target names, or to some peer when the target is absent.
ChannelToTarget(s, target) ==
  IF target.uuid = None THEN lifecycle[s].channels # {}
  ELSE Named(target) \in lifecycle[s].channels

\* The step has queued a send_rejected event.
SendRejected(s) ==
  /\ eventQueue'[s] # <<>>
  /\ eventQueue'[s][Len(eventQueue'[s])].type = "send_rejected"

C27_NullTargetSolePeerOrRefused ==
  [][\A s \in Sessions :
       (PlainSend(s) /\ last'.data.uuid = None) =>
         LET peers == lifecycle[s].connectedPeers
         IN /\ (Cardinality(peers) = 1 /\ peers \subseteq lifecycle[s].channels)
                 => {m.to : m \in last'.out} = peers
            /\ Cardinality(peers) > 1 => (last'.route = "refused" /\ last'.out = {})]_vars

-----------------------------------------------------------------------------
(* Claims about the event queue *)

\* The numbers of the application messages in a sequence of events.
Numbers(events) == [i \in DOMAIN events |-> events[i].data.app]

\* What the polls of session s have returned so far, followed by what its
\* queue holds.
Surfaced(s) == Numbers(poll[s].returned \o eventQueue[s])

\* The messages posted to session s that are neither returned nor queued.
Discarded(s) == (1 .. poll[s].posted) \ {Surfaced(s)[i] : i \in DOMAIN Surfaced(s)}

\* The queue is within its cap; what the polls returned and what is queued
\* is in the order of posting, nothing twice; what was discarded is older
\* than everything queued.
QueueOrdered(s) ==
  /\ Len(eventQueue[s]) <= config[s].maxQueueSize
  /\ \A i, j \in DOMAIN Surfaced(s) : i < j => Surfaced(s)[i] < Surfaced(s)[j]
  /\ \A d \in Discarded(s) : \A i \in DOMAIN eventQueue[s] : d < eventQueue[s][i].data.app

\* A step discards events only on overflow: the queue is full afterwards
\* and holds the newest events.
DiscardOnOverflow(s) ==
  Discarded(s)' # Discarded(s) =>
    /\ Len(eventQueue'[s]) = config[s].maxQueueSize
    /\ eventQueue'[s][Len(eventQueue'[s])].data.app = poll'[s].posted

\* C30: after every queueEvent the queue holds at most max_queue_size
\* events; successive polls return exactly the events that were not
\* discarded, in the order they were queued; and an overflow discards the
\* oldest queued events.
C30_QueueBoundedAndOrdered ==
  /\ [](\A s \in Sessions : QueueOrdered(s))
  /\ [][\A s \in Sessions : DiscardOnOverflow(s)]_vars

\* Polls have returned two events, the full queue having discarded one
\* that was posted between them, and a newer event is queued.
C30_Witness ==
  /\ Len(poll["a"].returned) = 2
  /\ Discarded("a") # {}
  /\ \E d \in Discarded("a") : poll["a"].returned[1].data.app < d
  /\ eventQueue["a"] # <<>>

-----------------------------------------------------------------------------
(* Claims about the state clocks *)

\* Each local set of session s has produced an entry with a greater clock
\* than every earlier local set of s.
LocalSetsIncrease(s) ==
  \A i, j \in DOMAIN LocalSetClocks(s) :
    i < j => LocalSetClocks(s)[i] < LocalSetClocks(s)[j]

\* No actor clock of any session decreases in the step.
ActorClocksGrow ==
  \A s \in Sessions, actor \in StreamIds :
    stateActorClock'[s][actor] >= stateActorClock[s][actor]

\* C32: in every session the clock recorded for each actor never decreases,
\* and each local set produces an entry whose clock is strictly greater
\* than the clock of every earlier local set by that session.
C32_ClocksMonotonic ==
  /\ [](\A s \in Sessions : LocalSetsIncrease(s))
  /\ [][ActorClocksGrow]_vars

\* The step hands session last'.s the state.patch that the step before
\* handed it.
SamePatchAgain ==
  /\ last.act = "dataReceived"
  /\ last'.act = "dataReceived"
  /\ last'.s = last.s
  /\ last'.from = last.from
  /\ last'.data = last.data
  /\ last'.data.kind = "state.patch"

\* C33: applying the same state.patch a second time leaves the state store,
\* the actor-clock map and the local clock as they were after the first
\* application.
C33_PatchIdempotent ==
  [][SamePatchAgain => UNCHANGED <<roomState, stateActorClock, stateClock>>]_vars

\* Session a has applied a patch of the outsider and has then received the
\* same patch again: the entry it stores is the one of the patch, and the
\* second patch was turned down as stale.
C33_Witness ==
  /\ last.act = "dataReceived"
  /\ last.s = "a"
  /\ last.data.kind = "state.patch"
  /\ Len(protocolEvents["a"]) >= 2
  /\ protocolEvents["a"][Len(protocolEvents["a"])].payload = [error |-> "stale_patch"]
  /\ protocolEvents["a"][Len(protocolEvents["a"]) - 1].payload =
       [key |-> "k1", clock |-> last.data.payload.clock]
  /\ roomState["a"]["k1"] # Nil
  /\ roomState["a"]["k1"].actor = last.data.payload.actor
  /\ roomState["a"]["k1"].clock = last.data.payload.clock

-----------------------------------------------------------------------------
(* Claims about waiting polls *)

\* C31: pollEvents(max, 0) resolves at once even when the queue is empty,
\* and pollEvents(max, w) with w > 0 resolves no later than min(w, 30000) ms
\* after the call: a promise is pending only for a positive waitMs, and the
\* time since the call and the time left on its timer add up to
\* min(waitMs, 30000).
C31_PollWaitsAtMostCappedWait ==
  \A s \in Sessions :
    poll[s].waiting # NoInt
      => /\ poll[s].waitMs > 0
         /\ poll[s].timer >= 0
         /\ poll[s].elapsed + poll[s].timer = Min(poll[s].waitMs, 30000)

\* A poll with a wait above the cap has waited 30000 ms on an empty queue
\* and its timer is due.
C31_Witness ==
  /\ poll["a"].waiting # NoInt
  /\ poll["a"].waitMs = 40000
  /\ poll["a"].elapsed = 30000
  /\ poll["a"].timer = 0
  /\ eventQueue["a"] = <<>>

-----------------------------------------------------------------------------
(* Claims about reconnecting *)

\* The step is one of the disconnect-and-reconnect cycle of a session: the
\* transport reports the loss, or the reconnect timer fires and the session
\* connects again.
ReconnectStep ==
  last'.act \in {"disconnected", "connectionFailed", "reconnectTimer"}

\* The step is a reconnect attempt that succeeds.
Reconnected == last'.act = "reconnectTimer" /\ last'.route = "connected"

\* C23: after a reconnect no peer record, handshake state or derived shared
\* key from before the reconnect is retained: the peers are rebuilt from
\* scratch, and no peer is ready before a new hello exchange.
C23_ReconnectRebuildsPeers ==
  [][Reconnected
       => \A u \in Uuids : /\ peerState'[last'.s][u] = Nil
                           /\ sharedKeys'[last'.s][u] = Nil]_vars

\* C24: a disconnect-and-reconnect cycle leaves the session's state
\* entries, state clock and incoming and outgoing transfer registries
\* unchanged.
C24_ReconnectKeepsStateAndTransfers ==
  [][ReconnectStep
       => UNCHANGED <<roomState, stateClock, incomingTransfers, outgoingTransfers>>]_vars

\* Session a has reconnected while it held a state entry and an outgoing
\* transfer.
C24_Witness ==
  /\ last.act = "reconnectTimer"
  /\ last.route = "connected"
  /\ lifecycle["a"].state = "connected"
  /\ lifecycle["a"].reconnectCount > 0
  /\ roomState["a"]["k1"] # Nil
  /\ stateClock["a"] > 0
  /\ outgoingTransfers["a"]["t1"] # Nil

\* The index of the last ready event in the queue of session s, 0 when
\* the session has not connected again since it started.
LastReady(s) ==
  LET ready == {i \in DOMAIN eventQueue[s] : eventQueue[s][i].type = "ready"}
  IN IF ready = {} THEN 0 ELSE CHOOSE i \in ready : \A j \in ready : j <= i

IsReconnectScheduled(event) == event.type = "reconnect_scheduled"

\* The reconnect_scheduled events of session s since its last successful
\* connect, in order.
ScheduledSinceConnect(s) ==
  SelectSeq(SubSeq(eventQueue[s], LastReady(s) + 1, Len(eventQueue[s])),
            IsReconnectScheduled)

\* C25: the delay before the n-th consecutive reconnect attempt since the
\* last successful connect is min(reconnect_ms * 2^(n-1), max_reconnect_ms),
\* so that no scheduled delay exceeds max_reconnect_ms.
C25_BackoffDoublesUpToMax ==
  \A s \in Sessions :
    \A n \in DOMAIN ScheduledSinceConnect(s) :
      /\ ScheduledSinceConnect(s)[n].inMs =
           Min(config[s].reconnectDelayMs * 2 ^ (n - 1), config[s].maxReconnectDelayMs)
      /\ ScheduledSinceConnect(s)[n].inMs <= config[s].maxReconnectDelayMs

\* stop() has been called on session s.
StopCalled(s) == ~lifecycle[s].running /\ lifecycle[s].state # "idle"

\* A ready event follows a stopped event in the queue of session s.
ReadyAfterStopped(s) ==
  \E i, j \in DOMAIN eventQueue[s] :
    i < j /\ eventQueue[s][i].type = "stopped" /\ eventQueue[s][j].type = "ready"

\* C35: once stop() has been called the session stays stopped: a connect
\* or reconnect attempt that was in flight when stop() was called never
\* sets the state to connected, never emits ready and never re-arms a
\* reconnect or heartbeat timer.
C35_StoppedStaysStopped ==
  \A s \in Sessions :
    StopCalled(s)
      => /\ lifecycle[s].state = "stopped"
         /\ ~ReadyAfterStopped(s)
         /\ ~lifecycle[s].reconnectTimer
         /\ ~lifecycle[s].heartbeatTimer

-----------------------------------------------------------------------------
(* Claims about the dispatch of tool calls *)

\* A dispatch is running and waits on session s.
WaitingOn(s) ==
  /\ chain.running # Nil
  /\ chain.running.session_id = s
  /\ poll[s].waiting # NoInt

\* C29: tool calls are serialized per session, not globally: while a call
\* waits on one session, the next call, addressed to a different session,
\* can start.
C29_WaitingCallDoesNotDelayOtherSession ==
  \A s \in Sessions :
    (WaitingOn(s) /\ chain.queued # <<>> /\ Head(chain.queued).session_id # s)
      => CanDispatch

-----------------------------------------------------------------------------
(* Claims about the life cycle *)

\* C20: stop() on a session that is already stopped changes no session
\* state and queues no event, in particular no second stopped event.
C20_StopIsIdempotent ==
  [][(last'.act = "stop" /\ lifecycle[last'.s].state = "stopped")
     => UNCHANGED <<peerState, sharedKeys, roomState, stateClock, stateActorClock,
                    incomingTransfers, outgoingTransfers, completedIncomingOrder,
                    completedOutgoingOrder, protocolEvents, protocolCursor, eventQueue,
                    lifecycle>>]_vars

=============================================================================
